---- MODULE Spec2Model ----
(***************************************************************************)
(* A model of scripts/build_train_cmd.py: the resolution of a training    *)
(* configuration from three layers (profile defaults, TOML file, process  *)
(* environment), its auto-correction and validation, the synthesis of the *)
(* accelerate launch command and the output of main().                    *)
(*                                                                         *)
(* Conventions.                                                            *)
(*  - A Python dict is a function whose DOMAIN is the set of its keys.     *)
(*  - A Python str is a Text: a sequence of one-character strings, or of   *)
(*    larger chunks where the code never looks inside them (path names).   *)
(*    f-string interpolation is concatenation of Texts; str(int) is Str.   *)
(*  - A Python float is an integer count of millionths (Micro units).      *)
(*  - stderr and stdout are the sequences of what was printed to them.     *)
(***************************************************************************)
EXTENDS Integers, Sequences, FiniteSets, TLC

VARIABLES
    pc,             \* position of main(): start, loaded, merged, corrected,
                    \* validated, built, done, exited
    args,           \* argparse namespace (line 509)
    script_dir,     \* Path(__file__).parent.resolve() (line 514)
    workspace,      \* the workspace of lines 511-516; <<>> before line 511
    toml_exists,    \* whether <workspace>/configs/flux_<profile>.toml exists
    toml_config,    \* the parsed TOML document: a sequence of sections
    flat_config,    \* flatten_toml_config(toml_config) (line 521)
    environ,        \* os.environ restricted to the variables main() reads
    env_overrides,  \* get_env_overrides() (line 530)
    config,         \* the configuration dict of main()
    warnings,       \* the list returned by validate_config (line 559)
    command,        \* the token list of build_command; <<>> before the call
    run_name,       \* the run name of lines 564-567
    paths,          \* the path table of lines 570-579
    resume_from,    \* os.environ RESUME_FROM (line 582), "" when unset
    resume_exists,  \* whether the file resume_from names exists
    fp8_base,       \* FP8_BASE == "1" (line 585)
    stderr,         \* what was printed to sys.stderr, in order
    stdout,         \* what was printed to sys.stdout, in order
    data_dir,       \* the directory paths["data"] as compute_dataset_hash found it
    exit_code       \* the process exit status; -1 while main() is running

vars == << pc, args, script_dir, workspace,
           toml_exists, toml_config, flat_config, environ,
           env_overrides, config, warnings, command, run_name, paths,
           resume_from, resume_exists, fp8_base, stderr, stdout, data_dir,
           exit_code >>

----------------------------------------------------------------------------
(* Bounds of the model's inputs. *)

\* RANK, ALPHA and the file's network_dim, network_alpha range over
\* 16*2 .. 16*MaxRankUnits.
MaxRankUnits == 3

\* At most MaxEnvVars of the variables main() reads are set in the environment.
MaxEnvVars == 2

----------------------------------------------------------------------------
(* Dicts. *)

EmptyDict == << >>

\* dict.get(key, default)
Get(d, k, default) == IF k \in DOMAIN d THEN d[k] ELSE default

\* a.update(b) as a value: the keys of both, b's value where b has the key
Update(a, b) ==
    [k \in (DOMAIN a) \cup (DOMAIN b) |-> IF k \in DOMAIN b THEN b[k] ELSE a[k]]

\* the dict {k: t} for a text t, or {} when t is NoText (an unset variable)
NoText == << "<unset>" >>
Entry(k, t) == IF t = NoText THEN EmptyDict ELSE (k :> t)

----------------------------------------------------------------------------
(* Texts. *)

DigitChars == << "0", "1", "2", "3", "4", "5", "6", "7", "8", "9" >>

IsDigit(c) == \E d \in 1..10 : DigitChars[d] = c

DigitVal(c) == (CHOOSE d \in 1..10 : DigitChars[d] = c) - 1

RECURSIVE StrNat(_)
StrNat(n) ==
    IF n < 10 THEN << DigitChars[n + 1] >>
    ELSE StrNat(n \div 10) \o << DigitChars[(n % 10) + 1] >>

\* str(n) of an int, as an f-string formats it
Str(n) == IF n < 0 THEN << "-" >> \o StrNat(-n) ELSE StrNat(n)

IsSpace(c) == c \in {" ", "\t", "\n"}

RECURSIVE LStrip(_)
LStrip(t) == IF t # << >> /\ IsSpace(Head(t)) THEN LStrip(Tail(t)) ELSE t

RECURSIVE RStrip(_)
RStrip(t) ==
    IF t # << >> /\ IsSpace(t[Len(t)]) THEN RStrip(SubSeq(t, 1, Len(t) - 1))
    ELSE t

\* str.strip()
Strip(t) == LStrip(RStrip(t))

RECURSIVE DigitsVal(_)
DigitsVal(t) ==
    IF t = << >> THEN 0
    ELSE 10 * DigitsVal(SubSeq(t, 1, Len(t) - 1)) + DigitVal(t[Len(t)])

AllDigits(t) == t # << >> /\ \A i \in 1..Len(t) : IsDigit(t[i])

\* int(text): surrounding whitespace and one sign are accepted; anything else
\* raises ValueError (ok = FALSE)
HasSign(s) == s # << >> /\ Head(s) \in {"-", "+"}

Unsigned(s) == IF HasSign(s) THEN Tail(s) ELSE s

Signed(s, magnitude) == IF HasSign(s) /\ Head(s) = "-" THEN 0 - magnitude ELSE magnitude

ParseIntStripped(s) ==
    IF AllDigits(Unsigned(s))
    THEN [ok |-> TRUE, val |-> Signed(s, DigitsVal(Unsigned(s)))]
    ELSE [ok |-> FALSE, val |-> 0]

ParseInt(text) == ParseIntStripped(Strip(text))

\* optional digits, then "." and digits: the decimal texts float() is given
\* here; the value is in millionths. Anything else raises ValueError.
RECURSIVE Pow10(_)
Pow10(n) == IF n = 0 THEN 1 ELSE 10 * Pow10(n - 1)

DotAt(t) == IF \E i \in 1..Len(t) : t[i] = "."
            THEN CHOOSE i \in 1..Len(t) : t[i] = "." /\ \A j \in 1..(i - 1) : t[j] # "."
            ELSE 0

ParseDecimal(s, whole, frac) ==
    IF /\ whole \o frac # << >>
       /\ \A i \in 1..Len(whole) : IsDigit(whole[i])
       /\ \A i \in 1..Len(frac) : IsDigit(frac[i])
       /\ Len(frac) <= 6
    THEN [ok |-> TRUE,
          val |-> Signed(s, DigitsVal(whole) * 1000000
                            + DigitsVal(frac) * Pow10(6 - Len(frac)))]
    ELSE [ok |-> FALSE, val |-> 0]

ParseFloatAt(s, body, dot) ==
    ParseDecimal(s,
                 IF dot = 0 THEN body ELSE SubSeq(body, 1, dot - 1),
                 IF dot = 0 THEN << >> ELSE SubSeq(body, dot + 1, Len(body)))

ParseFloatStripped(s) == ParseFloatAt(s, Unsigned(s), DotAt(Unsigned(s)))

ParseFloat(text) == ParseFloatStripped(Strip(text))

----------------------------------------------------------------------------
(* Configuration values: a Python int, float or str.  num is the int, or  *)
(* the float in millionths; txt is the str.                               *)

IntV(n) == [kind |-> "int", num |-> n, txt |-> << >>]
FloatV(micro) == [kind |-> "float", num |-> micro, txt |-> << >>]
StrV(t) == [kind |-> "str", num |-> 0, txt |-> t]

\* a Python int of more digits than a float can hold (above 1.8e308), as a
\* TOML file may give one: float() of it raises OverflowError
BigIntV == [kind |-> "bigint", num |-> 1, txt |-> << >>]

FloatOverflows(v) == v.kind = "bigint"

IsNumber(v) == v.kind \in {"int", "float"}

\* the int n, or the float in millionths, in millionths
Micro(v) == IF v.kind = "int" THEN v.num * 1000000 ELSE v.num

\* Python's a == b: numbers compare by value across int and float, strs by
\* content, a number never equals a str
PyEq(a, b) ==
    IF IsNumber(a) /\ IsNumber(b) THEN Micro(a) = Micro(b)
    ELSE a.kind = b.kind /\ a.txt = b.txt

----------------------------------------------------------------------------
(* Module constants. *)

\* PROFILE_DEFAULTS (lines 65-99)
PROFILE_DEFAULTS ==
    [fast |->
        [resolution |-> IntV(512),
         max_train_steps |-> IntV(1500),
         network_dim |-> IntV(32),
         network_alpha |-> IntV(32),
         lr_warmup_steps |-> IntV(100),
         learning_rate |-> FloatV(100),
         lr_scheduler |-> StrV(<< "constant_with_warmup" >>),
         noise_offset |-> FloatV(50000),
         network_dropout |-> FloatV(0),
         min_snr_gamma |-> IntV(0),
         gradient_accumulation_steps |-> IntV(4),
         min_bucket_reso |-> IntV(256),
         max_bucket_reso |-> IntV(768),
         optimizer_type |-> StrV(<< "AdamW8bit" >>)],
     final |->
        [resolution |-> IntV(768),
         max_train_steps |-> IntV(2500),
         network_dim |-> IntV(64),
         network_alpha |-> IntV(64),
         lr_warmup_steps |-> IntV(500),
         learning_rate |-> FloatV(100),
         lr_scheduler |-> StrV(<< "cosine_with_restarts" >>),
         lr_scheduler_num_cycles |-> IntV(1),
         noise_offset |-> FloatV(100000),
         network_dropout |-> FloatV(100000),
         min_snr_gamma |-> FloatV(5000000),
         gradient_accumulation_steps |-> IntV(4),
         min_bucket_reso |-> IntV(384),
         max_bucket_reso |-> IntV(1024),
         optimizer_type |-> StrV(<< "AdamW8bit" >>)]]

Profiles == {"fast", "final"}

\* env_mappings (lines 139-157), in the order the dict is iterated
env_mappings ==
    << << "RANK", "network_dim" >>,
       << "ALPHA", "network_alpha" >>,
       << "MAX_STEPS", "max_train_steps" >>,
       << "RESOLUTION", "resolution" >>,
       << "LEARNING_RATE", "learning_rate" >>,
       << "UNET_LR", "learning_rate" >>,
       << "WARMUP", "lr_warmup_steps" >>,
       << "NOISE_OFFSET", "noise_offset" >>,
       << "DROPOUT", "network_dropout" >>,
       << "SNR_GAMMA", "min_snr_gamma" >>,
       << "GRAD_ACCUM", "gradient_accumulation_steps" >>,
       << "BATCH_SIZE", "train_batch_size" >>,
       << "SEED", "seed" >>,
       << "OPTIMIZER", "optimizer_type" >>,
       << "SCHEDULER", "lr_scheduler" >>,
       << "MIN_BUCKET", "min_bucket_reso" >>,
       << "MAX_BUCKET", "max_bucket_reso" >> >>

\* the keys converted with int() (lines 164-167) and with float() (line 169)
IntKeys == {"network_dim", "network_alpha", "max_train_steps",
            "lr_warmup_steps", "gradient_accumulation_steps",
            "train_batch_size", "seed", "resolution",
            "min_bucket_reso", "max_bucket_reso"}

FloatKeys == {"learning_rate", "noise_offset", "network_dropout", "min_snr_gamma"}

----------------------------------------------------------------------------
(* The layers. *)

\* load_toml_config (lines 110-120): {} and two warnings when the file is
\* missing, else the parsed document
load_toml_config(exists, document) ==
    IF ~exists
    THEN [result |-> << >>,
          err |-> << [kind |-> "toml_missing", vals |-> << >>],
                     [kind |-> "using_defaults", vals |-> << >>] >>]
    ELSE [result |-> document, err |-> << >>]

\* flatten_toml_config (lines 123-131): a table's keys are merged into one
\* namespace in document order, a top-level scalar keeps its own key
RECURSIVE flatten_toml_config(_)
flatten_toml_config(document) ==
    IF document = << >> THEN EmptyDict
    ELSE LET entry == document[Len(document)]
             flat == flatten_toml_config(SubSeq(document, 1, Len(document) - 1))
         IN  IF entry.is_table THEN Update(flat, entry.values)
             ELSE Update(flat, entry.name :> entry.value)

\* StoreConverted with the text kept as it is when the conversion fails
StoreConvertedRaw(overrides, config_key, converted) ==
    Update(overrides, config_key :> converted.val)

\* lines 163-174: the value converted to the kind of its key; ok is FALSE
\* when the conversion raises ValueError
Converted(config_key, value) ==
    IF config_key \in IntKeys
    THEN [ok |-> ParseInt(value).ok, val |-> IntV(ParseInt(value).val)]
    ELSE IF config_key \in FloatKeys
    THEN [ok |-> ParseFloat(value).ok, val |-> FloatV(ParseFloat(value).val)]
    ELSE [ok |-> TRUE, val |-> StrV(value)]

StoreConverted(overrides, config_key, converted) ==
    IF converted.ok THEN Update(overrides, config_key :> converted.val)
    ELSE overrides

\* one iteration of the loop of get_env_overrides (lines 160-174)
EnvOverride(overrides, env, env_var, config_key) ==
    IF env_var \notin DOMAIN env \/ Strip(env[env_var]) = << >>
    THEN overrides
    ELSE StoreConverted(overrides, config_key, Converted(config_key, env[env_var]))

RECURSIVE EnvOverridesUpTo(_, _)
EnvOverridesUpTo(env, n) ==
    IF n = 0 THEN EmptyDict
    ELSE EnvOverride(EnvOverridesUpTo(env, n - 1), env,
                     env_mappings[n][1], env_mappings[n][2])

\* get_env_overrides (lines 134-176)
get_env_overrides(env) == EnvOverridesUpTo(env, Len(env_mappings))

----------------------------------------------------------------------------
(* What is printed: a message is its kind and the values it names. *)

Msg(kind, vals) == [kind |-> kind, vals |-> vals]

----------------------------------------------------------------------------
(* Auto-correction (main, lines 533-556). *)

\* SyncAlpha without the branch of lines 535-536
SyncAlphaWhenMissing(cfg, flat, env) ==
    IF "network_alpha" \notin DOMAIN env /\ "network_alpha" \notin DOMAIN flat
    THEN Update(cfg, "network_alpha" :> cfg["network_dim"])
    ELSE cfg

\* SyncAlpha without the branch of lines 538-539
SyncAlphaWhenRankSet(cfg, flat, env) ==
    IF "network_dim" \in DOMAIN env /\ "network_alpha" \notin DOMAIN env
    THEN Update(cfg, "network_alpha" :> cfg["network_dim"])
    ELSE cfg

\* SyncAlpha without the conditions of lines 535 and 538
SyncAlphaAlways(cfg, flat, env) ==
    Update(cfg, "network_alpha" :> cfg["network_dim"])

\* lines 535-539: alpha follows the rank when RANK is set and ALPHA is not,
\* or when neither the environment nor the TOML file gives an alpha
SyncAlpha(cfg, flat, env) ==
    IF "network_dim" \in DOMAIN env /\ "network_alpha" \notin DOMAIN env
    THEN Update(cfg, "network_alpha" :> cfg["network_dim"])
    ELSE IF "network_alpha" \notin DOMAIN env /\ "network_alpha" \notin DOMAIN flat
         THEN Update(cfg, "network_alpha" :> cfg["network_dim"])
         ELSE cfg

\* x // d of an int or a float x by the int d > 0, in the kind of x
FloorDiv(x, d) ==
    IF x.kind = "int" THEN IntV(x.num \div d)
    ELSE FloatV((x.num \div (d * 1000000)) * 1000000)

\* x + n and x * n of an int or a float x with the int n
Plus(x, n) == IF x.kind = "int" THEN IntV(x.num + n) ELSE FloatV(x.num + n * 1000000)
Times(x, n) == [x EXCEPT !.num = x.num * n]

\* a >= b of two numbers
PyGe(a, b) == Micro(a) >= Micro(b)

\* a > b of two numbers
PyGt(a, b) == Micro(a) > Micro(b)

\* line 547 with a margin of one step: ((resolution // 64) + 1) * 64
NewMaxBucketOneStep(resolution) == Times(Plus(FloorDiv(resolution, 64), 1), 64)

\* line 547 rounding the resolution up: (((resolution + 63) // 64) + 2) * 64
NewMaxBucketRoundUp(resolution) ==
    Times(Plus(FloorDiv(Plus(resolution, 63), 64), 2), 64)

\* line 547: ((resolution // 64) + 2) * 64
NewMaxBucket(resolution) == Times(Plus(FloorDiv(resolution, 64), 2), 64)

MaxBucketAdjusted(cfg, resolution, max_bucket, new_max_bucket) ==
    IF PyGt(resolution, max_bucket)
    THEN [config |-> Update(cfg, "max_bucket_reso" :> new_max_bucket),
          err |-> << Msg("auto_max_bucket",
                         << max_bucket, new_max_bucket, resolution >>) >>]
    ELSE [config |-> cfg, err |-> << >>]

\* AdjustMaxBucket with twice the lower bound as the new upper bound
AdjustMaxBucketFromMin(cfg) ==
    MaxBucketAdjusted(cfg, Get(cfg, "resolution", IntV(512)),
                      Get(cfg, "max_bucket_reso", IntV(1024)),
                      Times(Get(cfg, "min_bucket_reso", IntV(256)), 2))

\* lines 543-549: the record is the new config and what is printed to stderr
AdjustMaxBucket(cfg) ==
    MaxBucketAdjusted(cfg, Get(cfg, "resolution", IntV(512)),
                      Get(cfg, "max_bucket_reso", IntV(1024)),
                      NewMaxBucket(Get(cfg, "resolution", IntV(512))))

\* line 554: max(256, (resolution // 4 // 64) * 64); max() returns its first
\* argument unless the second is greater
PyMax(a, b) == IF PyGt(b, a) THEN b ELSE a

\* line 554 without max(256, ...): (resolution // 4 // 64) * 64
NewMinBucketNoFloor(resolution) ==
    Times(FloorDiv(FloorDiv(resolution, 4), 64), 64)

NewMinBucket(resolution) ==
    PyMax(IntV(256), Times(FloorDiv(FloorDiv(resolution, 4), 64), 64))

MinBucketAdjusted(cfg, resolution, min_bucket, new_min_bucket) ==
    IF PyGt(min_bucket, FloorDiv(resolution, 2))
    THEN [config |-> Update(cfg, "min_bucket_reso" :> new_min_bucket),
          err |-> << Msg("auto_min_bucket", << min_bucket, new_min_bucket >>) >>]
    ELSE [config |-> cfg, err |-> << >>]

\* AdjustMinBucket that raises the resolution to twice the lower bound
\* instead of lowering the bound
AdjustMinBucketRaisingResolution(cfg) ==
    IF PyGt(Get(cfg, "min_bucket_reso", IntV(256)),
            FloorDiv(Get(cfg, "resolution", IntV(512)), 2))
    THEN [config |-> Update(cfg, "resolution" :>
                                 Times(Get(cfg, "min_bucket_reso", IntV(256)), 2)),
          err |-> << >>]
    ELSE [config |-> cfg, err |-> << >>]

\* lines 552-556; resolution is the local of line 543
AdjustMinBucket(cfg) ==
    MinBucketAdjusted(cfg, Get(cfg, "resolution", IntV(512)),
                      Get(cfg, "min_bucket_reso", IntV(256)),
                      NewMinBucket(Get(cfg, "resolution", IntV(512))))

\* the comparisons and divisions of lines 545-554 raise TypeError when one of
\* the three values is a str
BucketTypeError(cfg) ==
    \E k \in {"resolution", "max_bucket_reso", "min_bucket_reso"} :
        k \in DOMAIN cfg /\ ~IsNumber(cfg[k])

----------------------------------------------------------------------------
(* validate_config (lines 179-218). *)

\* Python truthiness of a value
Truthy(v) == IF IsNumber(v) \/ FloatOverflows(v) THEN v.num # 0 ELSE v.txt # << >>

\* "float(x) if x else default" inside a try (lines 203-204, 211-212):
\* ok is FALSE when float() raises
FloatOfParse(parsed) == [ok |-> parsed.ok, val |-> FloatV(parsed.val)]

FloatOrDefault(v, default) ==
    IF ~Truthy(v) THEN [ok |-> TRUE, val |-> default]
    ELSE IF IsNumber(v) THEN [ok |-> TRUE, val |-> FloatV(Micro(v))]
    ELSE FloatOfParse(ParseFloat(v.txt))

\* a warning when the value was read (no exception) and exceeds the threshold
WarnAbove(kind, read, threshold) ==
    IF read.ok /\ Micro(read.val) > threshold
    THEN << Msg(kind, << read.val >>) >> ELSE << >>

\* lines 201-216: the soft warnings, learning rate above 5e-4 and noise
\* offset above 0.15
SoftWarnings(cfg) ==
    WarnAbove("lr_too_high",
              FloatOrDefault(Get(cfg, "learning_rate", FloatV(100)), FloatV(100)),
              500)
    \o WarnAbove("noise_too_high",
                 FloatOrDefault(Get(cfg, "noise_offset", IntV(0)), IntV(0)),
                 150000)

\* float() of lines 204 and 212 raises OverflowError, which the except
\* clauses of lines 207 and 215 do not name
SoftRaises(cfg) ==
    \/ FloatOverflows(Get(cfg, "learning_rate", FloatV(100)))
    \/ FloatOverflows(Get(cfg, "noise_offset", IntV(0)))

\* Validated without the comparison of line 191: a mismatch is never seen
ValidatedUnchecked(rank, alpha, allow_alpha_mismatch, soft) ==
    [exit |-> FALSE, warnings |-> soft, err |-> << >>]

\* Validated without the bypass of line 192: a mismatch always exits
ValidatedNoBypass(rank, alpha, allow_alpha_mismatch, soft) ==
    IF ~PyEq(alpha, rank)
    THEN [exit |-> TRUE,
          warnings |-> << >>,
          err |-> << Msg("p0_error", << alpha, rank >>),
                     Msg("p0_explanation", << >>),
                     Msg("p0_hint_allow_alpha_mismatch", << >>) >>]
    ELSE [exit |-> FALSE, warnings |-> soft, err |-> << >>]

\* lines 190-199 for the rank and alpha of lines 187-188
Validated(rank, alpha, allow_alpha_mismatch, soft) ==
    IF ~PyEq(alpha, rank) /\ ~allow_alpha_mismatch
    THEN [exit |-> TRUE,
          warnings |-> << >>,
          err |-> << Msg("p0_error", << alpha, rank >>),
                     Msg("p0_explanation", << >>),
                     Msg("p0_hint_allow_alpha_mismatch", << >>) >>]
    ELSE [exit |-> FALSE,
          warnings |-> (IF ~PyEq(alpha, rank)
                        THEN << Msg("p0_warning", << alpha, rank >>) >>
                        ELSE << >>) \o soft,
          err |-> << >>]

\* exit is TRUE when sys.exit(1) is called (line 199); err is what was
\* printed to stderr before it
validate_config(cfg, allow_alpha_mismatch) ==
    Validated(Get(cfg, "network_dim", IntV(32)),
              Get(cfg, "network_alpha", Get(cfg, "network_dim", IntV(32))),
              allow_alpha_mismatch, SoftWarnings(cfg))

----------------------------------------------------------------------------
(* build_command (lines 221-393). *)

\* the digits of a float's fraction, in millionths, without trailing zeros
RECURSIVE FracDigits(_, _)
FracDigits(frac, width) ==
    IF frac = 0 THEN << >>
    ELSE << DigitChars[(frac \div Pow10(width - 1)) + 1] >>
         \o FracDigits(frac % Pow10(width - 1), width - 1)

\* repr() of a float x >= 0 given in millionths: positional notation from
\* 0.0001 up, exponent notation below it
StrFloatAbs(micro) ==
    IF micro = 0 \/ micro >= 100
    THEN StrNat(micro \div 1000000) \o << "." >>
         \o (IF micro % 1000000 = 0 THEN << "0" >>
             ELSE FracDigits(micro % 1000000, 6))
    ELSE IF micro < 10 THEN StrNat(micro) \o << "e", "-", "0", "6" >>
    ELSE IF micro % 10 = 0 THEN StrNat(micro \div 10) \o << "e", "-", "0", "5" >>
    ELSE StrNat(micro \div 10) \o << "." >> \o StrNat(micro % 10)
         \o << "e", "-", "0", "5" >>

StrFloat(micro) ==
    IF micro < 0 THEN << "-" >> \o StrFloatAbs(0 - micro) ELSE StrFloatAbs(micro)

\* a value as an f-string interpolates it
Format(v) ==
    IF v.kind = "int" THEN Str(v.num)
    ELSE IF v.kind = "float" THEN StrFloat(v.num)
    ELSE v.txt

\* the token f"--{flag}={value}"
KV(flag, value) == << flag, "=" >> \o value

\* FLUX_REQUIRED_PARAMS without its last key
FLUX_REQUIRED_PARAMS_SHORT ==
    << KV("--guidance_scale", StrFloat(1000000)),
       KV("--timestep_sampling", << "flux_shift" >>),
       KV("--model_prediction_type", << "raw" >>) >>

\* FLUX_REQUIRED_PARAMS (lines 102-107), as the loop of lines 300-301 emits it
FLUX_REQUIRED_PARAMS ==
    << KV("--guidance_scale", StrFloat(1000000)),
       KV("--timestep_sampling", << "flux_shift" >>),
       KV("--model_prediction_type", << "raw" >>),
       KV("--discrete_flow_shift", StrFloat(1000000)) >>

\* "x > n" for a config value x and an int n raises TypeError when x is a str
GtRaises(v) == ~IsNumber(v)

\* lines 228-377: the tokens before quoting
CmdParts(cfg, path_table, name, resume, exists, fp8) ==
    LET dropout == Get(cfg, "network_dropout", IntV(0))
        lr == FloatOrDefault(Get(cfg, "learning_rate", FloatV(100)), FloatV(100)).val
        grad_accum == Get(cfg, "gradient_accumulation_steps", IntV(4))
        noise_offset == Get(cfg, "noise_offset", IntV(0))
        snr_gamma == Get(cfg, "min_snr_gamma", IntV(0))
        workers == Get(cfg, "max_data_loader_n_workers", IntV(2))
    IN  << << "accelerate" >>, << "launch" >>,
           << "--num_cpu_threads_per_process" >>, << "1" >>,
           path_table.sdscripts \o << "/flux_train_network.py" >> >>
        \o << KV("--pretrained_model_name_or_path",
                 path_table.model \o << "/flux1-dev.safetensors" >>),
              KV("--clip_l", path_table.text_encoder \o << "/clip_l.safetensors" >>),
              KV("--t5xxl", path_table.text_encoder \o << "/t5xxl_fp16.safetensors" >>),
              KV("--ae", path_table.model \o << "/ae.safetensors" >>) >>
        \o << KV("--train_data_dir", path_table.data) >>
        \o << KV("--output_dir", path_table.output),
              KV("--output_name", name),
              KV("--save_model_as", << "safetensors" >>) >>
        \o << KV("--network_module", << "networks.lora_flux" >>),
              KV("--network_dim", Format(Get(cfg, "network_dim", IntV(32)))),
              KV("--network_alpha",
                 Format(Get(cfg, "network_alpha", Get(cfg, "network_dim", IntV(32))))) >>
        \o (IF PyGt(dropout, IntV(0))
            THEN << KV("--network_dropout", Format(dropout)) >> ELSE << >>)
        \o << KV("--learning_rate", Format(lr)),
              KV("--optimizer_type",
                 Format(Get(cfg, "optimizer_type", StrV(<< "AdamW8bit" >>)))),
              KV("--lr_scheduler",
                 Format(Get(cfg, "lr_scheduler", StrV(<< "constant_with_warmup" >>)))),
              KV("--lr_warmup_steps", Format(Get(cfg, "lr_warmup_steps", IntV(100)))) >>
        \o (IF /\ "lr_scheduler" \in DOMAIN cfg
               /\ \/ PyEq(cfg["lr_scheduler"], StrV(<< "cosine_with_restarts" >>))
                  \/ PyEq(cfg["lr_scheduler"], StrV(<< "cosine" >>))
            THEN << KV("--lr_scheduler_num_cycles",
                       Format(Get(cfg, "lr_scheduler_num_cycles", IntV(1)))) >>
            ELSE << >>)
        \o (IF PyGt(grad_accum, IntV(1))
            THEN << KV("--gradient_accumulation_steps", Format(grad_accum)) >>
            ELSE << >>)
        \o << << "--sdpa" >>,
              KV("--mixed_precision",
                 Format(Get(cfg, "mixed_precision", StrV(<< "bf16" >>)))),
              << "--gradient_checkpointing" >> >>
        \o (IF fp8 THEN << << "--fp8_base" >> >> ELSE << >>)
        \o FLUX_REQUIRED_PARAMS
        \o << KV("--blocks_to_swap", Format(Get(cfg, "blocks_to_swap", IntV(18)))),
              << "--cache_text_encoder_outputs" >>,
              << "--cache_latents" >>,
              << "--cache_latents_to_disk" >> >>
        \o << KV("--resolution", Format(Get(cfg, "resolution", IntV(512)))),
              << "--enable_bucket" >>,
              KV("--min_bucket_reso", Format(Get(cfg, "min_bucket_reso", IntV(256)))),
              KV("--max_bucket_reso", Format(Get(cfg, "max_bucket_reso", IntV(1024)))),
              KV("--bucket_reso_steps", << "64" >>) >>
        \o << KV("--train_batch_size", Format(Get(cfg, "train_batch_size", IntV(1)))),
              KV("--max_train_steps", Format(Get(cfg, "max_train_steps", IntV(1500)))) >>
        \o (IF PyGt(noise_offset, IntV(0))
            THEN << KV("--noise_offset", Format(noise_offset)) >> ELSE << >>)
        \o (IF PyGt(snr_gamma, IntV(0))
            THEN << KV("--min_snr_gamma", Format(snr_gamma)) >> ELSE << >>)
        \o << KV("--caption_extension", << ".txt" >>),
              KV("--keep_tokens", Format(Get(cfg, "keep_tokens", IntV(1)))) >>
        \o << KV("--save_every_n_steps",
                 Format(Get(cfg, "save_every_n_steps", IntV(500)))),
              KV("--save_precision",
                 Format(Get(cfg, "save_precision", StrV(<< "bf16" >>)))) >>
        \o << KV("--sample_every_n_steps",
                 Format(Get(cfg, "sample_every_n_steps", IntV(250)))),
              KV("--sample_prompts", path_table.sample_prompts),
              KV("--sample_sampler",
                 Format(Get(cfg, "sample_sampler", StrV(<< "euler" >>)))) >>
        \o << KV("--logging_dir", path_table.logs),
              KV("--seed", Format(Get(cfg, "seed", IntV(42)))) >>
        \o (IF PyGt(workers, IntV(0))
            THEN << KV("--max_data_loader_n_workers", Format(workers)) >> ELSE << >>)
        \o (IF resume # << >> /\ exists
            THEN << KV("--network_weights", resume) >> ELSE << >>)

\* the comparisons of lines 265, 285, 330, 335, 368 raise TypeError on a str,
\* and float() of line 270 raises ValueError on a str that is no number
BuildRaises(cfg) ==
    \/ \E k \in {"network_dropout", "gradient_accumulation_steps", "noise_offset",
                 "min_snr_gamma", "max_data_loader_n_workers"} :
          k \in DOMAIN cfg /\ GtRaises(cfg[k])
    \/ /\ "learning_rate" \in DOMAIN cfg
       /\ ~FloatOrDefault(cfg["learning_rate"], FloatV(100)).ok

\* index of the first "=" of a token, 0 when it has none
EqAt(part) ==
    IF \E i \in 1..Len(part) : part[i] = "="
    THEN CHOOSE i \in 1..Len(part) :
            part[i] = "=" /\ \A j \in 1..(i - 1) : part[j] # "="
    ELSE 0

\* lines 383-391: a key=value token whose value holds a space is quoted
QuoteSplit(part, eq, key, value) ==
    IF eq # 0 /\ \E i \in 1..Len(value) : value[i] = " "
    THEN key \o << "=", "\"" >> \o value \o << "\"" >>
    ELSE part

QuoteAt(part, eq) ==
    QuoteSplit(part, eq, SubSeq(part, 1, eq - 1), SubSeq(part, eq + 1, Len(part)))

Quote(part) == QuoteAt(part, EqAt(part))

\* quoted_parts filled from the last part to the first
QuoteAllReversed(cmd_parts) ==
    [i \in 1..Len(cmd_parts) |-> Quote(cmd_parts[Len(cmd_parts) + 1 - i])]

\* lines 381-391: quoted_parts
QuoteAll(cmd_parts) == [i \in 1..Len(cmd_parts) |-> Quote(cmd_parts[i])]

\* " ".join(parts)
RECURSIVE Join(_)
Join(parts) ==
    IF parts = << >> THEN << >>
    ELSE IF Len(parts) = 1 THEN parts[1]
    ELSE parts[1] \o << " " >> \o Join(Tail(parts))

\* build_command without the os.path.exists test of line 373
build_commandUnchecked(cfg, path_table, name, resume, exists, fp8) ==
    [command |-> Join(QuoteAll(CmdParts(cfg, path_table, name, resume, TRUE, fp8))),
     err |-> IF resume = << >> THEN << >>
             ELSE << Msg("resuming_from", << StrV(resume) >>) >>]

\* build_command with the print of line 377 outside the test of line 372
build_commandNoisy(cfg, path_table, name, resume, exists, fp8) ==
    [command |-> Join(QuoteAll(CmdParts(cfg, path_table, name, resume, exists, fp8))),
     err |-> IF resume # << >> /\ exists
             THEN << Msg("resuming_from", << StrV(resume) >>) >>
             ELSE << Msg("resume_not_found", << StrV(resume) >>) >>]

\* build_command: the returned string and what is printed to stderr (lines
\* 375, 377)
build_command(cfg, path_table, name, resume, exists, fp8) ==
    [command |-> Join(QuoteAll(CmdParts(cfg, path_table, name, resume, exists, fp8))),
     err |-> IF resume = << >> THEN << >>
             ELSE IF exists THEN << Msg("resuming_from", << StrV(resume) >>) >>
             ELSE << Msg("resume_not_found", << StrV(resume) >>) >>]

----------------------------------------------------------------------------
(* The inputs of a run. *)

RankValues == {16 * i : i \in 2..MaxRankUnits}

ResValues == {488, 976, 1024}

MinBucketValues == {248, 320}

MaxBucketValues == {512}

\* the text of an override variable, or NoText when it is unset
Texts(values) == {Str(n) : n \in values} \cup {NoText}

\* the documents a profile's TOML file may hold: a [network] table giving
\* neither, one or both of network_dim and network_alpha
TomlDocs ==
    { << [name |-> "network", is_table |-> TRUE, values |-> f, value |-> IntV(0)] >> :
        f \in UNION {[keys -> {IntV(n) : n \in RankValues}] :
                        keys \in SUBSET {"network_dim", "network_alpha"}} }

\* DEFAULT_* (lines 52-59) with none of the path variables set
DefaultPaths ==
    [workspace |-> << "/workspace/lora_training" >>,
     sdscripts |-> << "/opt/sd-scripts" >>,
     model |-> << "/workspace/models/flux1-dev" >>,
     text_encoder |-> << "/workspace/models/text_encoders" >>,
     data |-> << "/workspace/lora_training", "/data/subject" >>,
     output |-> << "/workspace/lora_training", "/output" >>,
     logs |-> << "/workspace/lora_training", "/logs" >>,
     sample_prompts |-> << "/workspace/lora_training", "/configs/sample_prompts.txt" >>]

\* DEFAULT_WORKSPACE (line 52)
DefaultWorkspace(env) == Get(env, "WORKSPACE", << "/workspace/lora_training" >>)

\* the directory of the script: its parent and its last component
ScriptDir(parent, name) == [parent |-> parent, name |-> name]

\* the script in the scripts directory of the repository, checked out at the
\* default workspace, and the script copied to a directory of another name
RepoScripts == ScriptDir(<< "/workspace/lora_training" >>, "scripts")
InstalledScripts == ScriptDir(<< "/usr/local" >>, "bin")

ScriptDirs == {RepoScripts, InstalledScripts}

\* a workspace given with --workspace
GivenWorkspace == << "/mnt/ws" >>

\* lines 511-516: --workspace, else WORKSPACE, else the default; then the
\* parent of the script's directory when that directory is named scripts.
\* a.workspace is NoText without --workspace
Workspace(a, env, dir) ==
    IF dir.name = "scripts" THEN dir.parent
    ELSE IF a.workspace # NoText /\ a.workspace # << >> THEN a.workspace
    ELSE DefaultWorkspace(env)

\* line 112: the file load_toml_config looks for
ConfigPath(ws, profile) == ws \o << "/configs/flux_", profile, ".toml" >>

\* lines 570-579 over the DEFAULT_* of lines 52-59, for the workspace ws of
\* line 516 and the environment env
PathsOf(ws, env) ==
    [workspace |-> ws,
     sdscripts |-> Get(env, "SDSCRIPTS", << "/opt/sd-scripts" >>),
     model |-> Get(env, "MODEL_PATH", << "/workspace/models/flux1-dev" >>),
     text_encoder |-> Get(env, "TEXT_ENCODER_PATH", << "/workspace/models/text_encoders" >>),
     data |-> Get(env, "DATA_DIR", DefaultWorkspace(env) \o << "/data/subject" >>),
     output |-> Get(env, "OUT_DIR", DefaultWorkspace(env) \o << "/output" >>),
     logs |-> Get(env, "LOG_DIR", DefaultWorkspace(env) \o << "/logs" >>),
     sample_prompts |-> Get(env, "SAMPLE_PROMPTS",
                            DefaultWorkspace(env) \o << "/configs/sample_prompts.txt" >>)]

\* a checkpoint path given in RESUME_FROM
ResumePath == << "/workspace/ckpt.safetensors" >>

\* the outcome of a subprocess probe of generate_repro_info
ProbeOutcomes == {"ok", "CalledProcessError", "FileNotFoundError", "OtherError"}

\* the sentinels of compute_dataset_hash (lines 462, 476)
DatasetNotFound == "dataset_not_found"
EmptyDataset == "empty_dataset"

\* a directory entry os.walk lists among the files: its path under the data
\* directory, its size and mtime, and whether os.stat of it succeeds (it does
\* not for a dangling symbolic link or a file removed after the walk)
File(rel_path, size, mtime, stat_ok) ==
    [rel_path |-> rel_path, size |-> size, mtime |-> mtime, stat_ok |-> stat_ok]

Dir(is_dir, files) == [is_dir |-> is_dir, files |-> files]

\* the states of the data directory: missing, without files, and with one
\* file that can or cannot be stat'ed
DataDirs ==
    { Dir(FALSE, {}),
      Dir(TRUE, {}),
      Dir(TRUE, {File(<< "a.png" >>, 7, 5, TRUE)}),
      Dir(TRUE, {File(<< "a.png" >>, 7, 5, FALSE)}) }

\* lines 464-473: one "rel_path:size:mtime" per file whose os.stat succeeds
FileInfo(dir) ==
    { f.rel_path \o << ":" >> \o Str(f.size) \o << ":" >> \o Str(f.mtime) :
        f \in {g \in dir.files : g.stat_ok} }

\* line 478: the MD5 hex digest of the sorted lines, kept as the lines it is
\* the digest of
Md5(file_info) == << "md5", file_info >>

\* compute_dataset_hash (lines 455-478)
compute_dataset_hash(dir) ==
    IF ~dir.is_dir THEN << DatasetNotFound >>
    ELSE IF FileInfo(dir) = {} THEN << EmptyDataset >>
    ELSE Md5(FileInfo(dir))

----------------------------------------------------------------------------
(* main (lines 481-632). *)

Init ==
    /\ pc = "start"
    /\ args \in [profile : Profiles,
                 allow_alpha_mismatch : BOOLEAN,
                 mode : {"command", "dry_run", "output_json", "show_repro"},
                 workspace : {NoText}]
    /\ script_dir = RepoScripts
    /\ workspace = << >>
    /\ toml_exists = FALSE
    /\ toml_config = << >>
    /\ flat_config = EmptyDict
    /\ environ = EmptyDict
    /\ env_overrides = EmptyDict
    /\ config = EmptyDict
    /\ warnings = << >>
    /\ command = << >>
    /\ run_name = << >>
    /\ paths = EmptyDict
    /\ resume_from = << >>
    /\ resume_exists = FALSE
    /\ fp8_base = FALSE
    /\ stderr = << >>
    /\ stdout = << >>
    /\ data_dir = Dir(FALSE, {})
    /\ exit_code = -1

\* lines 519-527: the TOML layer is loaded, flattened and laid over a copy of
\* the profile's defaults
Loaded(exists, loaded, flat) ==
    /\ toml_exists' = exists
    /\ toml_config' = loaded.result
    /\ flat_config' = flat
    /\ config' = Update(PROFILE_DEFAULTS[args.profile], flat)
    /\ stderr' = stderr \o loaded.err

LoadConfig ==
    /\ pc = "start"
    /\ workspace' = Workspace(args, environ, script_dir)
    /\ \E exists \in BOOLEAN :
       \E document \in (IF exists THEN TomlDocs ELSE {<< >>}) :
          Loaded(exists, load_toml_config(exists, document),
                 flatten_toml_config(load_toml_config(exists, document).result))
    /\ pc' = "loaded"
    /\ UNCHANGED << args, script_dir, environ, env_overrides, warnings, command, run_name,
                    paths, resume_from, resume_exists, fp8_base, stdout, exit_code,
                    data_dir >>

\* EnvApplied with the update of line 531 the other way round
EnvAppliedUnder(env, overrides) ==
    /\ Cardinality(DOMAIN env) <= MaxEnvVars
    /\ environ' = env
    /\ env_overrides' = overrides
    /\ config' = Update(overrides, config)

\* lines 529-531: the environment layer is read and laid over the config; the
\* environment of the process is fixed from here on
EnvApplied(env, overrides) ==
    /\ Cardinality(DOMAIN env) <= MaxEnvVars
    /\ environ' = env
    /\ env_overrides' = overrides
    /\ config' = Update(config, overrides)

EnvRead(env) == EnvApplied(env, get_env_overrides(env))

ApplyEnv ==
    /\ pc = "loaded"
    /\ \E rank \in Texts(RankValues), alpha \in Texts(RankValues),
          res \in Texts(ResValues), minb \in Texts(MinBucketValues),
          maxb \in Texts(MaxBucketValues), resume \in {ResumePath, NoText},
          fp8 \in {<< "1" >>, NoText} :
          EnvRead(Entry("RANK", rank) @@ Entry("ALPHA", alpha)
                  @@ Entry("RESOLUTION", res) @@ Entry("MIN_BUCKET", minb)
                  @@ Entry("MAX_BUCKET", maxb) @@ Entry("RESUME_FROM", resume)
                  @@ Entry("FP8_BASE", fp8))
    /\ pc' = "merged"
    /\ UNCHANGED << args, script_dir, workspace, toml_exists, toml_config, flat_config, warnings, command,
                    run_name, paths, resume_from, resume_exists, fp8_base, stderr,
                    stdout, exit_code,
                    data_dir >>

\* an uncaught exception: the traceback goes to stderr and the status is 1
Raise(what) ==
    /\ pc' = "exited"
    /\ exit_code' = 1
    /\ stderr' = stderr \o << Msg("traceback", << StrV(<< what >>) >>) >>

\* lines 541-556 after the alpha sync: the two bucket corrections in the order
\* of the code
BucketsAdjusted(raised, lowered) ==
    [config |-> lowered.config, err |-> raised.err \o lowered.err]

AdjustBuckets(raised) == BucketsAdjusted(raised, AdjustMinBucket(raised.config))

\* lines 533-556: the three auto-corrections
AutoCorrected(cfg, flat, env) ==
    AdjustBuckets(AdjustMaxBucket(SyncAlpha(cfg, flat, env)))

Corrected(corrected) ==
    /\ config' = corrected.config
    /\ stderr' = stderr \o corrected.err
    /\ pc' = "corrected"
    /\ UNCHANGED exit_code

AutoCorrect ==
    /\ pc = "merged"
    /\ IF BucketTypeError(config)
       THEN /\ Raise("TypeError")
            /\ config' = SyncAlpha(config, flat_config, env_overrides)
       ELSE Corrected(AutoCorrected(config, flat_config, env_overrides))
    /\ UNCHANGED << args, script_dir, workspace, toml_exists, toml_config, flat_config, environ,
                    env_overrides, warnings, command, run_name, paths, resume_from,
                    resume_exists, fp8_base, stdout,
                    data_dir >>

\* Checked with the diagnostics of lines 196-198 printed without
\* file=sys.stderr
CheckedOnStdout(v) ==
    IF v.exit
    THEN /\ pc' = "exited"
         /\ exit_code' = 1
         /\ stdout' = stdout \o v.err
         /\ UNCHANGED << warnings, stderr >>
    ELSE /\ pc' = "validated"
         /\ warnings' = v.warnings
         /\ stderr' = stderr \o v.warnings
         /\ UNCHANGED << exit_code, stdout >>

\* lines 558-561: sys.exit(1) inside validate_config, or the warnings printed
Checked(v) ==
    IF v.exit
    THEN /\ pc' = "exited"
         /\ exit_code' = 1
         /\ stderr' = stderr \o v.err
         /\ UNCHANGED << warnings, stdout >>
    ELSE /\ pc' = "validated"
         /\ warnings' = v.warnings
         /\ stderr' = stderr \o v.warnings
         /\ UNCHANGED << exit_code, stdout >>

\* line 559: validate_config exits, raises or returns
Validate ==
    /\ pc = "corrected"
    /\ IF /\ ~validate_config(config, args.allow_alpha_mismatch).exit
          /\ SoftRaises(config)
       THEN /\ Raise("OverflowError")
            /\ UNCHANGED << warnings, stdout >>
       ELSE Checked(validate_config(config, args.allow_alpha_mismatch))
    /\ UNCHANGED << args, script_dir, workspace, toml_exists, toml_config, flat_config, environ,
                    env_overrides, config, command, run_name, paths, resume_from,
                    resume_exists, fp8_base,
                    data_dir >>

\* line 567 with RUN_NAME unset and no --run-name: the generated name
GeneratedRunName(profile) == << "flux_", profile, "_", "<timestamp>" >>

Built(built) ==
    /\ command' = built.command
    /\ stderr' = stderr \o built.err
    /\ pc' = "built"
    /\ UNCHANGED exit_code

\* lines 563-595: run name, path table, RESUME_FROM, FP8_BASE, build_command
BuildWith(name, path_table, resume, exists, fp8) ==
    /\ resume = << >> => ~exists
    /\ run_name' = name
    /\ paths' = path_table
    /\ resume_from' = resume
    /\ resume_exists' = exists
    /\ fp8_base' = fp8
    /\ IF BuildRaises(config)
       THEN /\ Raise("TypeError")
            /\ UNCHANGED command
       ELSE Built(build_command(config, path_table, name, resume, exists, fp8))

\* lines 564-567 with no --run-name
RunNameOf(profile, env) == Get(env, "RUN_NAME", GeneratedRunName(profile))

Build ==
    /\ pc = "validated"
    /\ \E exists \in BOOLEAN :
          BuildWith(RunNameOf(args.profile, environ), PathsOf(workspace, environ),
                    Get(environ, "RESUME_FROM", << >>), exists,
                    Get(environ, "FP8_BASE", << "0" >>) = << "1" >>)
    /\ UNCHANGED << args, script_dir, workspace, toml_exists, toml_config, flat_config, environ,
                    env_overrides, config, warnings, stdout,
                    data_dir >>

\* config.get(key) with no default: None when the key is missing
NoneV == [kind |-> "none", num |-> 0, txt |-> << >>]

\* generate_repro_info (lines 396-452) under the outcomes of its two probes:
\* CalledProcessError and FileNotFoundError are caught (lines 421, 432), any
\* other exception leaves the function
generate_repro_info(cfg, path_table, name, profile, git, gpu) ==
    [raises |-> git = "OtherError" \/ gpu = "OtherError",
     record |->
        [run_name |-> name,
         profile |-> profile,
         git_commit |-> IF git = "ok" THEN "<commit>" ELSE "unknown",
         gpu |-> IF gpu = "ok" THEN "<gpu>" ELSE "unknown",
         hyperparameters |->
            [k \in {"network_dim", "network_alpha", "max_train_steps", "resolution",
                    "learning_rate", "noise_offset", "network_dropout",
                    "min_snr_gamma", "gradient_accumulation_steps", "seed"} |->
                Get(cfg, k, NoneV)]]]

\* what is printed to stdout: its kind and its content
Out(kind, body) == [kind |-> kind, body |-> body]

\* the object of --output-json with the profile's defaults as its config
JsonOutputDefaults ==
    [profile |-> args.profile,
     run_name |-> run_name,
     config |-> PROFILE_DEFAULTS[args.profile],
     paths |-> paths,
     command |-> command,
     resume_from |-> IF resume_from # << >> THEN StrV(resume_from) ELSE NoneV,
     fp8_base |-> fp8_base]

\* lines 599-608: the object of --output-json
JsonOutput ==
    [profile |-> args.profile,
     run_name |-> run_name,
     config |-> config,
     paths |-> paths,
     command |-> command,
     resume_from |-> IF resume_from # << >> THEN StrV(resume_from) ELSE NoneV,
     fp8_base |-> fp8_base]

\* json.dumps (line 608) of a scalar: an int in decimal, a float by repr(), a
\* str between double quotes (the strs here hold nothing to escape), None as
\* null
JsonDump(v) ==
    IF v.kind = "int" THEN Str(v.num)
    ELSE IF v.kind = "float" THEN StrFloat(v.num)
    ELSE IF v.kind = "str" THEN << "\"" >> \o v.txt \o << "\"" >>
    ELSE << "null" >>

JsonDumpBool(b) == IF b THEN << "true" >> ELSE << "false" >>

\* json.loads of the text of a scalar: a number with a fraction or an
\* exponent is a float, any other number an int
JsonLoad(t) ==
    IF t = << "null" >> THEN NoneV
    ELSE IF Head(t) = "\"" THEN StrV(SubSeq(t, 2, Len(t) - 1))
    ELSE IF \E i \in 1..Len(t) : t[i] \in {".", "e"} THEN FloatV(ParseFloat(t).val)
    ELSE IntV(ParseInt(t).val)

JsonLoadBool(t) == t = << "true" >>

\* lines 614-628: the diagnostics of --dry-run
DryRunDiagnostics ==
    << Msg("dry_run_banner", << StrV(<< args.profile >>), StrV(run_name) >>),
       Msg("dry_run_key_configuration",
           << Get(config, "network_dim", NoneV),
              Get(config, "network_alpha", NoneV),
              Get(config, "noise_offset", NoneV),
              Get(config, "network_dropout", NoneV),
              Get(config, "min_snr_gamma", NoneV),
              Get(config, "gradient_accumulation_steps", NoneV) >>),
       Msg("dry_run_generated_command", << >>) >>

Finish ==
    /\ pc' = "done"
    /\ exit_code' = 0

\* lines 609-612: the reproducibility record, or the exception of a probe
EmitRepro(repro, dir) ==
    IF repro.raises
    THEN /\ Raise("OtherError")
         /\ UNCHANGED << stdout, data_dir >>
    ELSE /\ data_dir' = dir
         /\ stdout' = stdout \o
               << Out("repro", [info |-> repro.record,
                                dataset_hash |-> compute_dataset_hash(dir)]) >>
         /\ Finish
         /\ UNCHANGED stderr

\* lines 597-632: the output mode
Emit ==
    /\ pc = "built"
    /\ IF args.mode = "output_json"
       THEN /\ stdout' = stdout \o << Out("json", JsonOutput) >>
            /\ Finish
            /\ UNCHANGED << stderr, data_dir >>
       ELSE IF args.mode = "show_repro"
       THEN \E git \in ProbeOutcomes, gpu \in ProbeOutcomes, dir \in DataDirs :
               EmitRepro(generate_repro_info(config, paths, run_name,
                                             args.profile, git, gpu), dir)
       ELSE IF args.mode = "dry_run"
       THEN /\ stderr' = stderr \o DryRunDiagnostics
            /\ stdout' = stdout \o << Out("command", command) >>
            /\ Finish
            /\ UNCHANGED data_dir
       ELSE /\ stdout' = stdout \o << Out("command", command) >>
            /\ Finish
            /\ UNCHANGED << stderr, data_dir >>
    /\ UNCHANGED << args, script_dir, workspace, toml_exists, toml_config, flat_config, environ,
                    env_overrides, config, warnings, command, run_name, paths,
                    resume_from, resume_exists, fp8_base >>

Next == LoadConfig \/ ApplyEnv \/ AutoCorrect \/ Validate \/ Build \/ Emit

Spec == Init /\ [][Next]_vars

----------------------------------------------------------------------------
(* build_command and the output of main over a wider range of validated     *)
(* runs: the state after line 561 is computed by the operators above for    *)
(* each profile, TOML document and environment, and main goes on from it.   *)

\* a TOML file that sets the data loader workers to 0
WorkersDoc ==
    << [name |-> "training", is_table |-> TRUE,
        values |-> ("max_data_loader_n_workers" :> IntV(0)), value |-> IntV(0)] >>

\* a TOML file that gives keys build_command never reads
UnreadKeysDoc ==
    << [name |-> "network", is_table |-> TRUE,
        values |-> ("network_module" :> StrV(<< "networks.lora" >>)),
        value |-> IntV(0)],
       [name |-> "flux", is_table |-> TRUE,
        values |-> ("guidance_scale" :> FloatV(3500000))
                   @@ ("bucket_reso_steps" :> IntV(32))
                   @@ ("timestep_sampling" :> StrV(<< "sigmoid" >>)),
        value |-> IntV(0)] >>

BuildDocs == {WorkersDoc, UnreadKeysDoc}

\* the environments: each variable is unset or has the one value given here
BuildEnvs ==
    { Entry("GRAD_ACCUM", grad) @@ Entry("NOISE_OFFSET", noise)
      @@ Entry("SCHEDULER", sched) @@ Entry("FP8_BASE", fp8)
      @@ Entry("RESUME_FROM", resume) @@ Entry("SDSCRIPTS", sd)
      @@ Entry("OUT_DIR", out) @@ Entry("RUN_NAME", name) :
        grad \in {<< "1" >>, NoText}, noise \in {<< "0" >>, NoText},
        sched \in {<< "cosine" >>, NoText}, fp8 \in {<< "1" >>, NoText},
        resume \in {ResumePath, NoText},
        sd \in {<< "/opt/sd", " ", "scripts" >>, NoText},
        out \in {<< "/mnt/my", " ", "runs" >>, NoText},
        name \in {<< "night", " ", "run" >>, NoText} }

\* lines 524-531
MergedConfig(profile, flat, overrides) ==
    Update(Update(PROFILE_DEFAULTS[profile], flat), overrides)

\* the state of main after line 561 when validate_config returned v
RunValidated(a, exists, loaded, flat, env, overrides, corrected, v) ==
    /\ ~v.exit
    /\ pc = "validated"
    /\ args = a
    /\ script_dir = RepoScripts
    /\ workspace = Workspace(a, env, RepoScripts)
    /\ toml_exists = exists
    /\ toml_config = loaded.result
    /\ flat_config = flat
    /\ environ = env
    /\ env_overrides = overrides
    /\ config = corrected.config
    /\ warnings = v.warnings
    /\ stderr = loaded.err \o corrected.err \o v.warnings
    /\ command = << >>
    /\ run_name = << >>
    /\ paths = EmptyDict
    /\ resume_from = << >>
    /\ resume_exists = FALSE
    /\ fp8_base = FALSE
    /\ stdout = << >>
    /\ data_dir = Dir(FALSE, {})
    /\ exit_code = -1

RunCorrected(a, exists, loaded, flat, env, overrides, corrected) ==
    /\ ~SoftRaises(corrected.config)
    /\ RunValidated(a, exists, loaded, flat, env, overrides, corrected,
                 validate_config(corrected.config, a.allow_alpha_mismatch))

RunMerged(a, exists, loaded, flat, env, overrides) ==
    /\ ~BucketTypeError(MergedConfig(a.profile, flat, overrides))
    /\ RunCorrected(a, exists, loaded, flat, env, overrides,
                    AutoCorrected(MergedConfig(a.profile, flat, overrides),
                                  flat, overrides))

RunLoaded(a, exists, loaded, env) ==
    RunMerged(a, exists, loaded, flatten_toml_config(loaded.result), env,
              get_env_overrides(env))

RunFrom(a, exists, document, env) ==
    RunLoaded(a, exists, load_toml_config(exists, document), env)

InitBuild ==
    \E a \in [profile : Profiles, allow_alpha_mismatch : {FALSE},
               mode : {"command", "dry_run", "output_json", "show_repro"},
               workspace : {NoText}],
       exists \in BOOLEAN, env \in BuildEnvs :
       \E document \in (IF exists THEN BuildDocs ELSE {<< >>}) :
          RunFrom(a, exists, document, env)

NextBuild == Build \/ Emit

SpecBuild == InitBuild /\ [][NextBuild]_vars

----------------------------------------------------------------------------
(* main with and without --workspace, run from the scripts directory of    *)
(* the repository and from a directory of another name.                    *)

InitWorkspace ==
    /\ pc = "start"
    /\ args \in [profile : {"fast"},
                 allow_alpha_mismatch : {FALSE},
                 mode : {"command", "output_json"},
                 workspace : {GivenWorkspace, NoText}]
    /\ script_dir \in ScriptDirs
    /\ workspace = << >>
    /\ toml_exists = FALSE
    /\ toml_config = << >>
    /\ flat_config = EmptyDict
    /\ environ = EmptyDict
    /\ env_overrides = EmptyDict
    /\ config = EmptyDict
    /\ warnings = << >>
    /\ command = << >>
    /\ run_name = << >>
    /\ paths = EmptyDict
    /\ resume_from = << >>
    /\ resume_exists = FALSE
    /\ fp8_base = FALSE
    /\ stderr = << >>
    /\ stdout = << >>
    /\ data_dir = Dir(FALSE, {})
    /\ exit_code = -1

SpecWorkspace == InitWorkspace /\ [][Next]_vars

----------------------------------------------------------------------------
(* The layers over a wider range of files and environments: the state      *)
(* after line 531 is computed by the operators above for each profile,     *)
(* TOML document and environment, and main goes on from it.                *)

Table(name, values) ==
    [name |-> name, is_table |-> TRUE, values |-> values, value |-> IntV(0)]

\* network_dim = "32": a string where the key is declared an integer
StrRankDoc == << Table("network", "network_dim" :> StrV(<< "32" >>)) >>

\* resolution = "1024": a string where the key is declared an integer
StrResolutionDoc == << Table("training", "resolution" :> StrV(<< "1024" >>)) >>

\* learning_rate = "high": a string that is no number
StrRateDoc == << Table("training", "learning_rate" :> StrV(<< "high" >>)) >>

\* learning_rate = 1 followed by 400 zeros: an integer no float can hold
HugeRateDoc == << Table("training", "learning_rate" :> BigIntV) >>

\* learning_rate = 0.0005 and noise_offset = 0.15, the two thresholds of
\* validate_config
ThresholdDoc ==
    << Table("training", ("learning_rate" :> FloatV(500))
                         @@ ("noise_offset" :> FloatV(150000))) >>

\* learning_rate = 0.001 and noise_offset = 0.2, above the two thresholds
HighDoc ==
    << Table("training", ("learning_rate" :> FloatV(1000))
                         @@ ("noise_offset" :> FloatV(200000))) >>

\* resolution above max_bucket_reso and min_bucket_reso above half of it
BucketsDoc ==
    << Table("training", ("resolution" :> IntV(1024))
                         @@ ("min_bucket_reso" :> IntV(640))
                         @@ ("max_bucket_reso" :> IntV(768))) >>

LayerDocs == {StrRankDoc, StrResolutionDoc, StrRateDoc, HugeRateDoc,
              ThresholdDoc, HighDoc, BucketsDoc}

\* the environments: each variable is unset, blank (empty or a space),
\* unparsable as the kind of its key, or parsable
LayerEnvs ==
    { Entry("RANK", rank) @@ Entry("LEARNING_RATE", rate)
      @@ Entry("UNET_LR", unet) @@ Entry("NOISE_OFFSET", noise) :
        rank \in {<< "4", "8" >>, << " " >>, << "a", "b", "c" >>, NoText},
        rate \in {<< "0", ".", "0", "0", "1" >>, << "f", "a", "s", "t" >>, NoText},
        unet \in {<< "0", ".", "0", "0", "0", "2" >>, << "x" >>, NoText},
        noise \in {<< "0", ".", "2" >>, << >>, NoText} }

\* the state of main after line 531
RunMergedAt(a, exists, loaded, flat, env, overrides) ==
    /\ pc = "merged"
    /\ args = a
    /\ script_dir = RepoScripts
    /\ workspace = Workspace(a, env, RepoScripts)
    /\ toml_exists = exists
    /\ toml_config = loaded.result
    /\ flat_config = flat
    /\ environ = env
    /\ env_overrides = overrides
    /\ config = MergedConfig(a.profile, flat, overrides)
    /\ warnings = << >>
    /\ stderr = loaded.err
    /\ command = << >>
    /\ run_name = << >>
    /\ paths = EmptyDict
    /\ resume_from = << >>
    /\ resume_exists = FALSE
    /\ fp8_base = FALSE
    /\ stdout = << >>
    /\ data_dir = Dir(FALSE, {})
    /\ exit_code = -1

RunLoadedAt(a, exists, loaded, env) ==
    RunMergedAt(a, exists, loaded, flatten_toml_config(loaded.result), env,
                get_env_overrides(env))

InitLayers ==
    \E a \in [profile : Profiles, allow_alpha_mismatch : BOOLEAN,
               mode : {"command", "output_json"}, workspace : {NoText}],
       exists \in BOOLEAN, env \in LayerEnvs :
       \E document \in (IF exists THEN LayerDocs ELSE {<< >>}) :
          RunLoadedAt(a, exists, load_toml_config(exists, document), env)

NextLayers == AutoCorrect \/ Validate \/ Build \/ Emit

SpecLayers == InitLayers /\ [][NextLayers]_vars

----------------------------------------------------------------------------
(* Reading a serialized command. *)

HasFlag(cmd, flag) == \E i \in 1..Len(cmd) : cmd[i] = flag

FlagAt(cmd, flag) == CHOOSE i \in 1..Len(cmd) : cmd[i] = flag

\* where the token that starts at chunk i ends: before the next separator
TokenEnd(cmd, i) ==
    IF \E j \in i..Len(cmd) : cmd[j] = " "
    THEN (CHOOSE j \in i..Len(cmd) :
             cmd[j] = " " /\ \A k \in i..(j - 1) : cmd[k] # " ") - 1
    ELSE Len(cmd)

\* the text after "flag=" in the command
FlagValue(cmd, flag) == SubSeq(cmd, FlagAt(cmd, flag) + 2, TokenEnd(cmd, FlagAt(cmd, flag)))

\* the rank and the alpha as validate_config reads them (lines 187-188)
RankOf(cfg) == Get(cfg, "network_dim", IntV(32))
AlphaOf(cfg) == Get(cfg, "network_alpha", RankOf(cfg))

Mismatch(cfg) == ~PyEq(AlphaOf(cfg), RankOf(cfg))

AfterValidation == pc \in {"validated", "built", "done"}

\* a serialized command whose --network_alpha and --network_dim agree
AlphaFlagIsDimFlag(cmd) ==
    /\ HasFlag(cmd, "--network_alpha")
    /\ HasFlag(cmd, "--network_dim")
    /\ FlagValue(cmd, "--network_alpha") = FlagValue(cmd, "--network_dim")

\* the commands written to stdout, bare or inside the --output-json object
EmittedCommands ==
    {stdout[i].body : i \in {j \in 1..Len(stdout) : stdout[j].kind = "command"}}
    \cup {stdout[i].body.command : i \in {j \in 1..Len(stdout) : stdout[j].kind = "json"}}

----------------------------------------------------------------------------
(* Claims. *)

\* C1: a run that got past validate_config without --allow-alpha-mismatch has
\* network_alpha equal to network_dim in its config, in the command it built
\* and in every command or JSON object it wrote to stdout.
C1_AlphaEqualsDimUnlessBypassed ==
    (AfterValidation /\ ~args.allow_alpha_mismatch) =>
        /\ PyEq(config["network_alpha"], config["network_dim"])
        /\ pc \in {"built", "done"} => AlphaFlagIsDimFlag(command)
        /\ \A cmd \in EmittedCommands : AlphaFlagIsDimFlag(cmd)
        /\ \A i \in 1..Len(stdout) :
              stdout[i].kind = "json" =>
                 PyEq(stdout[i].body.config["network_alpha"],
                      stdout[i].body.config["network_dim"])

\* C1 witness: a finished run without the bypass whose rank was overridden by
\* RANK=48 over a file that gave another alpha, and that wrote its command.
C1_Witness ==
    /\ pc = "done"
    /\ ~args.allow_alpha_mismatch
    /\ "RANK" \in DOMAIN environ /\ environ["RANK"] = << "4", "8" >>
    /\ "network_alpha" \in DOMAIN flat_config
    /\ flat_config["network_alpha"] = IntV(32)
    /\ EmittedCommands # {}
    /\ \A cmd \in EmittedCommands : FlagValue(cmd, "--network_alpha") = << "4", "8" >>

\* C2: when alpha differs from the rank after auto-correction and the bypass
\* is not set, the run ends with status 1 at validation: build_command was
\* never called and nothing was written to stdout, whatever the output mode.
C2_MismatchAbortsBeforeBuild ==
    (pc \notin {"start", "loaded", "merged", "corrected"}
     /\ Mismatch(config) /\ ~args.allow_alpha_mismatch) =>
        /\ pc = "exited"
        /\ exit_code = 1
        /\ command = << >>
        /\ stdout = << >>
        /\ stderr[Len(stderr) - 2] = Msg("p0_error", << AlphaOf(config), RankOf(config) >>)

\* C2 witness: a run in --output-json mode that exited at validation on
\* ALPHA=32 against RANK=48.
C2_Witness ==
    /\ pc = "exited"
    /\ exit_code = 1
    /\ args.mode = "output_json"
    /\ ~args.allow_alpha_mismatch
    /\ config["network_alpha"] = IntV(32)
    /\ config["network_dim"] = IntV(48)
    /\ stdout = << >>

P0Warnings == {i \in 1..Len(warnings) : warnings[i].kind = "p0_warning"}

Effective(k) ==
    IF k \in DOMAIN env_overrides THEN env_overrides[k]
    ELSE IF k \in DOMAIN flat_config THEN flat_config[k]
    ELSE PROFILE_DEFAULTS[args.profile][k]

\* C4: before auto-correction every key of the config has the value of the
\* highest layer that gives it, defaults < TOML file < environment; when the
\* TOML file is absent the file layer is empty, the run has not failed and the
\* config is the profile's defaults under the environment overrides.
C4_LayerPrecedence ==
    /\ pc \in {"loaded", "merged"} => exit_code = -1
    /\ pc = "merged" =>
          /\ DOMAIN config = DOMAIN PROFILE_DEFAULTS[args.profile]
                             \cup DOMAIN flat_config \cup DOMAIN env_overrides
          /\ \A k \in DOMAIN config : config[k] = Effective(k)
          /\ ~toml_exists =>
                /\ flat_config = EmptyDict
                /\ \A k \in DOMAIN config :
                      config[k] = IF k \in DOMAIN env_overrides THEN env_overrides[k]
                                  ELSE PROFILE_DEFAULTS[args.profile][k]

\* C4 witness: the rank is given by all three layers with three values and the
\* config has the one of the environment.
C4_Witness ==
    /\ pc = "merged"
    /\ toml_exists
    /\ "network_dim" \in DOMAIN flat_config
    /\ "network_dim" \in DOMAIN env_overrides
    /\ PROFILE_DEFAULTS[args.profile]["network_dim"] = IntV(64)
    /\ flat_config["network_dim"] = IntV(32)
    /\ env_overrides["network_dim"] = IntV(48)
    /\ config["network_dim"] = IntV(48)

AfterCorrection == pc \in {"corrected", "validated", "built", "done"}

RankOnly ==
    "network_dim" \in DOMAIN env_overrides /\ "network_alpha" \notin DOMAIN env_overrides

\* C5: when the environment sets RANK and not ALPHA, after auto-correction
\* network_alpha equals network_dim, the rank of the environment, for every
\* profile and TOML file (also one that gives its own network_alpha), and the
\* command built and every command written carries that rank as --network_alpha.
C5_AlphaFollowsRuntimeRank ==
    (RankOnly /\ (AfterCorrection \/ pc = "exited")) =>
        /\ config["network_dim"] = env_overrides["network_dim"]
        /\ config["network_alpha"] = env_overrides["network_dim"]
        /\ \A cmd \in EmittedCommands \cup (IF pc \in {"built", "done"} THEN {command} ELSE {}) :
              FlagValue(cmd, "--network_alpha") = Str(env_overrides["network_dim"].num)
        /\ pc = "exited" => args.mode = "show_repro" /\ command # << >>

\* C5 witness: RANK=48 without ALPHA over a TOML file that gives
\* network_alpha = 32, and the command written has --network_alpha=48.
C5_Witness ==
    /\ pc = "done"
    /\ RankOnly
    /\ environ["RANK"] = << "4", "8" >>
    /\ "network_alpha" \in DOMAIN flat_config
    /\ flat_config["network_alpha"] = IntV(32)
    /\ \E cmd \in EmittedCommands : FlagValue(cmd, "--network_alpha") = << "4", "8" >>

NoAlphaGiven ==
    "network_alpha" \notin DOMAIN env_overrides /\ "network_alpha" \notin DOMAIN flat_config

\* C6: when neither the environment nor the TOML file gives network_alpha,
\* after auto-correction network_alpha equals network_dim, whether the rank
\* is the default, the file's or the environment's; the profile's default
\* alpha does not stay beside a rank changed by the file.
C6_AlphaFollowsRankWhenMissing ==
    (NoAlphaGiven /\ AfterCorrection) =>
        /\ config["network_dim"] = Effective("network_dim")
        /\ config["network_alpha"] = Effective("network_dim")

\* C6 witness: the TOML file alone changes the rank to 48 in a profile whose
\* default alpha is 32, and the alpha after auto-correction is 48.
C6_Witness ==
    /\ AfterCorrection
    /\ NoAlphaGiven
    /\ "network_dim" \notin DOMAIN env_overrides
    /\ "network_dim" \in DOMAIN flat_config
    /\ flat_config["network_dim"] = IntV(48)
    /\ PROFILE_DEFAULTS[args.profile]["network_alpha"] = IntV(32)
    /\ config["network_alpha"] = IntV(48)

\* C7: an alpha given by the environment is kept by auto-correction, and so
\* is an alpha given by the TOML file unless the environment sets RANK
\* without ALPHA; in that one case the file's alpha is replaced by the rank.
C7_ExplicitAlphaKept ==
    AfterCorrection =>
        /\ "network_alpha" \in DOMAIN env_overrides =>
              config["network_alpha"] = env_overrides["network_alpha"]
        /\ ("network_alpha" \in DOMAIN flat_config
            /\ "network_alpha" \notin DOMAIN env_overrides
            /\ "network_dim" \notin DOMAIN env_overrides) =>
              config["network_alpha"] = flat_config["network_alpha"]
        /\ ("network_alpha" \in DOMAIN flat_config /\ RankOnly) =>
              config["network_alpha"] = env_overrides["network_dim"]

\* C7 witness: ALPHA=32 beside RANK=48 over a TOML file that gives
\* network_alpha = 48; the alpha after auto-correction is 32.
C7_Witness ==
    /\ pc = "corrected"
    /\ "network_alpha" \in DOMAIN env_overrides
    /\ env_overrides["network_alpha"] = IntV(32)
    /\ "network_dim" \in DOMAIN env_overrides
    /\ env_overrides["network_dim"] = IntV(48)
    /\ "network_alpha" \in DOMAIN flat_config
    /\ flat_config["network_alpha"] = IntV(48)
    /\ config["network_alpha"] = IntV(32)

\* C7 as stated: whenever the environment or the TOML file gives an alpha,
\* the alpha after auto-correction is that of the higher of the two layers.
C7_AsStated ==
    (AfterCorrection /\ ~NoAlphaGiven) =>
        config["network_alpha"] =
            IF "network_alpha" \in DOMAIN env_overrides
            THEN env_overrides["network_alpha"]
            ELSE flat_config["network_alpha"]

\* the step of main that auto-corrects the config
CorrectionStep == pc = "merged" /\ pc' = "corrected"

\* the places in stderr of the advisories of one kind written by this step
Advisories(kind) ==
    {i \in (Len(stderr) + 1)..Len(stderr') : stderr'[i].kind = kind}

C8_Step ==
    CorrectionStep =>
        LET r == config["resolution"].num
            m == config["max_bucket_reso"].num
        IN  IF r > m
            THEN /\ config'["max_bucket_reso"] = IntV((r \div 64) * 64 + 2 * 64)
                 /\ Cardinality(Advisories("auto_max_bucket")) = 1
                 /\ \A i \in Advisories("auto_max_bucket") :
                       stderr'[i].vals = << IntV(m), config'["max_bucket_reso"], IntV(r) >>
            ELSE /\ config'["max_bucket_reso"] = config["max_bucket_reso"]
                 /\ Advisories("auto_max_bucket") = {}

\* C8: auto-correction of a resolution r and an upper bucket bound m: when
\* r > m, max_bucket_reso becomes floor(r/64)*64 + 128 and one advisory with
\* the old and the new bound is written to stderr; when r <= m,
\* max_bucket_reso is unchanged and no such advisory is written.
C8_MaxBucketRaised == [][C8_Step]_vars

\* C8 witness: RESOLUTION=1024 over the default bound 768 gave 1152 and the
\* advisory "768 -> 1152".
C8_Witness ==
    /\ pc = "corrected"
    /\ config["resolution"] = IntV(1024)
    /\ config["max_bucket_reso"] = IntV(1152)
    /\ \E i \in 1..Len(stderr) :
          stderr[i] = Msg("auto_max_bucket", << IntV(768), IntV(1152), IntV(1024) >>)

C9_Step ==
    (CorrectionStep /\ config["resolution"].num > config["max_bucket_reso"].num) =>
        LET r == config["resolution"].num
            n == config'["max_bucket_reso"].num
        IN  /\ n % 64 = 0
            /\ n > r + 64
            /\ n - 64 <= r + 64
            /\ r % 64 = 0 => n = r + 128
            /\ r % 64 # 0 => n < r + 128

\* C9: when the resolution r exceeds the upper bucket bound, the corrected
\* bound is the smallest multiple of 64 that is more than one step (64) above
\* r; it is two steps (128) above r when r is a multiple of 64 and less than
\* 128 above r when it is not.
C9_MaxBucketMargin == [][C9_Step]_vars

\* C9 witness: RESOLUTION=976, not a multiple of 64, over a smaller bound
\* gave 1088, which is 112 above the resolution.
C9_Witness ==
    /\ pc = "corrected"
    /\ config["resolution"] = IntV(976)
    /\ config["max_bucket_reso"] = IntV(1088)

C9_StepAsStated ==
    (CorrectionStep /\ config["resolution"].num > config["max_bucket_reso"].num) =>
        LET r == config["resolution"].num
            n == config'["max_bucket_reso"].num
        IN  /\ n % 64 = 0
            /\ n >= r + 128
            /\ n - 64 < r + 128

\* C9 as stated: the corrected bound is the smallest multiple of 64 that is
\* at least 128 above the resolution.
C9_AsStated == [][C9_StepAsStated]_vars

\* max(256, floor(r/4) rounded down to a multiple of 64)
LowerBoundFor(r) ==
    IF ((r \div 4) \div 64) * 64 > 256 THEN ((r \div 4) \div 64) * 64 ELSE 256

C10_Step ==
    CorrectionStep =>
        LET r == config["resolution"].num
            b == config["min_bucket_reso"].num
            n == config'["min_bucket_reso"].num
        IN  IF 2 * b > r
            THEN /\ n = LowerBoundFor(r)
                 /\ b >= 256 => n <= b
                 /\ b < 256 => n = 256
                 /\ Cardinality(Advisories("auto_min_bucket")) = 1
                 /\ \A i \in Advisories("auto_min_bucket") :
                       stderr'[i].vals = << IntV(b), IntV(n) >>
            ELSE /\ n = b
                 /\ Advisories("auto_min_bucket") = {}

\* C10: auto-correction of a resolution r and a lower bucket bound b: when b
\* exceeds half of r, min_bucket_reso is set to max(256, floor(r/4) rounded
\* down to a multiple of 64) and one advisory is written to stderr; that value
\* is not greater than b when b is at least 256, and is 256, above b, when b
\* is below 256. When b is at most half of r nothing is changed or written.
C10_MinBucketSet == [][C10_Step]_vars

\* C10 witness: MIN_BUCKET=320 with RESOLUTION=488 was lowered to 256.
C10_Witness ==
    /\ pc = "corrected"
    /\ config["resolution"] = IntV(488)
    /\ config["min_bucket_reso"] = IntV(256)
    /\ \E i \in 1..Len(stderr) :
          stderr[i] = Msg("auto_min_bucket", << IntV(320), IntV(256) >>)

C10_StepAsStated ==
    CorrectionStep =>
        LET r == config["resolution"].num
            b == config["min_bucket_reso"].num
            n == config'["min_bucket_reso"].num
        IN  IF 2 * b > r
            THEN /\ n = LowerBoundFor(r)
                 /\ n <= b
                 /\ Advisories("auto_min_bucket") # {}
            ELSE /\ n = b
                 /\ Advisories("auto_min_bucket") = {}

\* C10 as stated: when b exceeds half of r the new lower bound is
\* max(256, ...) and is not greater than b.
C10_AsStated == [][C10_StepAsStated]_vars

\* C11: a finished --dry-run wrote its diagnostics and its command to stderr
\* and nothing to stdout.
C11_AsStated ==
    (pc = "done" /\ args.mode = "dry_run") =>
        /\ stdout = << >>
        /\ \E i \in 1..Len(stderr) : stderr[i].kind = "dry_run_generated_command"

\* the step of main that calls build_command
BuildStep == pc = "validated" /\ pc' = "built"

C12_Step ==
    BuildStep =>
        /\ \A e \in BOOLEAN :
              (resume_from' = << >> \/ e = resume_exists') =>
                 build_command(config, paths', run_name', resume_from', e,
                               fp8_base').command = command'
        /\ resume_from' = << >> => stderr' = stderr
        /\ resume_from' # << >> =>
              /\ stderr' = stderr \o
                    << Msg(IF resume_exists' THEN "resuming_from" ELSE "resume_not_found",
                           << StrV(resume_from') >>) >>
              /\ build_command(config, paths', run_name', resume_from', TRUE,
                               fp8_base').command
                 # build_command(config, paths', run_name', resume_from', FALSE,
                                 fp8_base').command

\* C12: build_command returns the same string for the same config, path
\* table, run name, resume path and fp8 toggle as long as the resume path
\* exists or not in the same way at both calls. Without a resume path the
\* result does not depend on the filesystem and nothing is printed; with a
\* resume path the result depends on whether the path exists, and one line is
\* printed to stderr.
C12_DeterministicGivenDisk == [][C12_Step]_vars

\* C12 witness: a command built with a resume path that does not exist, after
\* the warning on stderr.
C12_Witness ==
    /\ pc = "built"
    /\ resume_from # << >>
    /\ ~resume_exists
    /\ stderr[Len(stderr)] = Msg("resume_not_found", << StrV(resume_from) >>)
    /\ ~HasFlag(command, "--network_weights")

C12_StepAsStated ==
    BuildStep =>
        /\ \A e \in BOOLEAN :
              build_command(config, paths', run_name', resume_from', e,
                            fp8_base').command = command'
        /\ stderr' = stderr

\* C12 as stated: the command is the same whatever the filesystem holds at
\* the call, and the call prints nothing.
C12_AsStated == [][C12_StepAsStated]_vars

\* the --output-json objects on stdout
JsonObjects == {stdout[i].body : i \in {j \in 1..Len(stdout) : stdout[j].kind = "json"}}

\* a mapping of scalars, a text and the resume source after json.dumps and
\* json.loads
Reloaded(d) == [k \in DOMAIN d |-> JsonLoad(JsonDump(d[k]))]
ReloadedText(t) == JsonLoad(JsonDump(StrV(t))).txt
ReloadedPaths(d) == [k \in DOMAIN d |-> ReloadedText(d[k])]
ReloadedResume(v) == JsonLoad(JsonDump(v)).txt

\* build_command over the fields of an --output-json object read back
Rebuilt(obj, exists) ==
    build_command(Reloaded(obj.config), ReloadedPaths(obj.paths),
                  ReloadedText(obj.run_name), ReloadedResume(obj.resume_from),
                  exists, JsonLoadBool(JsonDumpBool(obj.fp8_base)))

\* C13: the object written by --output-json has exactly the fields profile,
\* run_name, config, paths, command, resume_from and fp8_base, and its command
\* is what build_command returns for its config, paths, run_name, resume_from
\* and fp8_base read back from the JSON text, the resume path existing or not
\* as it did at the run.
C13_JsonRoundTrip ==
    \A obj \in JsonObjects :
        /\ DOMAIN obj = {"profile", "run_name", "config", "paths", "command",
                         "resume_from", "fp8_base"}
        /\ Reloaded(obj.config) = config
        /\ ~BuildRaises(Reloaded(obj.config))
        /\ Rebuilt(obj, resume_exists).command = ReloadedText(obj.command)
        /\ obj.command = command

\* C13 witness: a finished --output-json run with NOISE_OFFSET=0, a run name
\* holding a space and a resume path that exists.
C13_Witness ==
    /\ pc = "done"
    /\ args.mode = "output_json"
    /\ JsonObjects # {}
    /\ config["noise_offset"] = FloatV(0)
    /\ run_name = << "night", " ", "run" >>
    /\ resume_from # << >> /\ resume_exists
    /\ \A obj \in JsonObjects : HasFlag(obj.command, "--network_weights")

\* the words of a command in the order build_command appends them; the
\* program path is known by its file name
FlagOrder ==
    << "accelerate", "launch", "--num_cpu_threads_per_process",
       "/flux_train_network.py",
       "--pretrained_model_name_or_path", "--clip_l", "--t5xxl", "--ae",
       "--train_data_dir",
       "--output_dir", "--output_name", "--save_model_as",
       "--network_module", "--network_dim", "--network_alpha", "--network_dropout",
       "--learning_rate", "--optimizer_type", "--lr_scheduler", "--lr_warmup_steps",
       "--lr_scheduler_num_cycles",
       "--gradient_accumulation_steps",
       "--sdpa", "--mixed_precision", "--gradient_checkpointing",
       "--fp8_base",
       "--guidance_scale", "--timestep_sampling", "--model_prediction_type",
       "--discrete_flow_shift",
       "--blocks_to_swap", "--cache_text_encoder_outputs", "--cache_latents",
       "--cache_latents_to_disk",
       "--resolution", "--enable_bucket", "--min_bucket_reso", "--max_bucket_reso",
       "--bucket_reso_steps",
       "--train_batch_size", "--max_train_steps",
       "--noise_offset",
       "--min_snr_gamma",
       "--caption_extension", "--keep_tokens",
       "--save_every_n_steps", "--save_precision",
       "--sample_every_n_steps", "--sample_prompts", "--sample_sampler",
       "--logging_dir", "--seed",
       "--max_data_loader_n_workers",
       "--network_weights" >>

FlagNames == {FlagOrder[i] : i \in 1..Len(FlagOrder)}

OrderIndex(f) == CHOOSE i \in 1..Len(FlagOrder) : FlagOrder[i] = f

\* the flags of a command, in the order they stand in it
FlagsIn(cmd) == SelectSeq(cmd, LAMBDA c : c \in FlagNames)

InOrder(fs) == \A i \in 1..(Len(fs) - 1) : OrderIndex(fs[i]) < OrderIndex(fs[i + 1])

HasCommand == pc \in {"built", "done"}

\* C14: the flags of every command stand in one fixed order (launcher,
\* program path, model, dataset, output, network, optimizer and schedule,
\* gradient accumulation, hardware, fp8, required block, memory, resolution
\* and bucketing, batch and steps, noise offset, min-SNR, caption, checkpoint,
\* sampling, logging, workers, resume), so two flags that are in two commands
\* are in the same relative order in both.
C14_TokenOrderFixed == HasCommand => InOrder(FlagsIn(command))

\* C14 witness: a command that holds every flag build_command can emit.
C14_Witness ==
    /\ pc = "built"
    /\ FlagsIn(command) = FlagOrder

\* how many times a flag stands in a command
Count(cmd, flag) == Cardinality({i \in 1..Len(cmd) : cmd[i] = flag})

\* config.get(k, default) > n for a number
Above(k, default, n) == Micro(Get(config, k, default)) > n * 1000000

Once(flag, condition) == Count(command, flag) = IF condition THEN 1 ELSE 0

\* C15: each conditional flag is in the command once when its condition
\* holds and not at all otherwise: --network_dropout iff network_dropout > 0,
\* --lr_scheduler_num_cycles iff lr_scheduler is cosine or
\* cosine_with_restarts, --gradient_accumulation_steps iff it is > 1,
\* --fp8_base iff the toggle is set, --noise_offset iff noise_offset > 0,
\* --min_snr_gamma iff min_snr_gamma > 0, --max_data_loader_n_workers iff the
\* worker count is > 0.
C15_ConditionalFlags ==
    HasCommand =>
        /\ Once("--network_dropout", Above("network_dropout", IntV(0), 0))
        /\ Once("--lr_scheduler_num_cycles",
                /\ "lr_scheduler" \in DOMAIN config
                /\ config["lr_scheduler"].txt \in {<< "cosine" >>,
                                                   << "cosine_with_restarts" >>})
        /\ Once("--gradient_accumulation_steps",
                Above("gradient_accumulation_steps", IntV(4), 1))
        /\ Once("--fp8_base", fp8_base)
        /\ fp8_base <=> ("FP8_BASE" \in DOMAIN environ /\ environ["FP8_BASE"] = << "1" >>)
        /\ Once("--noise_offset", Above("noise_offset", IntV(0), 0))
        /\ Once("--min_snr_gamma", Above("min_snr_gamma", IntV(0), 0))
        /\ Once("--max_data_loader_n_workers",
                Above("max_data_loader_n_workers", IntV(2), 0))

\* C15 witness: a command with none of the seven conditional flags.
C15_Witness ==
    /\ pc = "built"
    /\ \A flag \in {"--network_dropout", "--lr_scheduler_num_cycles",
                    "--gradient_accumulation_steps", "--fp8_base", "--noise_offset",
                    "--min_snr_gamma", "--max_data_loader_n_workers"} :
          Count(command, flag) = 0
    /\ config["gradient_accumulation_steps"] = IntV(1)
    /\ config["max_data_loader_n_workers"] = IntV(0)

FixedFlag(flag, value) ==
    Count(command, flag) = 1 /\ FlagValue(command, flag) = value

\* C16: every command holds --network_alpha, --network_module=networks.lora_flux,
\* --bucket_reso_steps=64 and the four required parameters
\* --guidance_scale=1.0, --timestep_sampling=flux_shift,
\* --model_prediction_type=raw and --discrete_flow_shift=1.0, whatever keys
\* the config has.
C16_RequiredBlock ==
    HasCommand =>
        /\ Count(command, "--network_alpha") = 1
        /\ FixedFlag("--network_module", << "networks.lora_flux" >>)
        /\ FixedFlag("--bucket_reso_steps", << "64" >>)
        /\ FixedFlag("--guidance_scale", << "1", ".", "0" >>)
        /\ FixedFlag("--timestep_sampling", << "flux_shift" >>)
        /\ FixedFlag("--model_prediction_type", << "raw" >>)
        /\ FixedFlag("--discrete_flow_shift", << "1", ".", "0" >>)

\* C16 witness: a command built from a config whose TOML file gave
\* network_module, guidance_scale, timestep_sampling and bucket_reso_steps.
C16_Witness ==
    /\ pc = "built"
    /\ "network_module" \in DOMAIN config
    /\ config["network_module"] = StrV(<< "networks.lora" >>)
    /\ config["guidance_scale"] = FloatV(3500000)
    /\ config["bucket_reso_steps"] = IntV(32)
    /\ FlagValue(command, "--network_module") = << "networks.lora_flux" >>

\* C17: --network_weights is in the command iff a resume path is given and
\* exists; when it is given and missing the flag is left out, a warning is on
\* stderr, the command is the one built with no resume path, and the run
\* has not failed.
C17_ResumeFlag ==
    /\ pc = "exited" => command # << >>
    /\ HasCommand =>
          /\ HasFlag(command, "--network_weights")
                <=> (resume_from # << >> /\ resume_exists)
          /\ HasFlag(command, "--network_weights") =>
                FlagValue(command, "--network_weights") = resume_from
          /\ resume_from = Get(environ, "RESUME_FROM", << >>)
          /\ (resume_from # << >> /\ ~resume_exists) =>
                /\ command = build_command(config, paths, run_name, << >>, FALSE,
                                           fp8_base).command
                /\ \E i \in 1..Len(stderr) :
                      stderr[i] = Msg("resume_not_found", << StrV(resume_from) >>)
                /\ exit_code # 1

\* C17 witness: a finished run with RESUME_FROM set to a path that does not
\* exist, which wrote a command without --network_weights.
C17_Witness ==
    /\ pc = "done"
    /\ exit_code = 0
    /\ "RESUME_FROM" \in DOMAIN environ
    /\ ~resume_exists
    /\ EmittedCommands # {}
    /\ \A cmd \in EmittedCommands : ~HasFlag(cmd, "--network_weights")

\* j is a whitespace outside quotes, for a word that starts at i
WordEndsAt(cmd, i, j) ==
    /\ IsSpace(cmd[j])
    /\ Cardinality({k \in i..j : cmd[k] = "\""}) % 2 = 0

\* the first whitespace outside quotes from i on, or one past the end
NextBreak(cmd, i) ==
    IF \E j \in i..Len(cmd) : WordEndsAt(cmd, i, j)
    THEN CHOOSE j \in i..Len(cmd) :
            WordEndsAt(cmd, i, j) /\ \A k \in i..(j - 1) : ~WordEndsAt(cmd, i, k)
    ELSE Len(cmd) + 1

Unquoted(word) == SelectSeq(word, LAMBDA c : c # "\"")

\* a command split at its unquoted whitespace, the quotes taken off
RECURSIVE ShellSplitFrom(_, _)
ShellSplitFrom(cmd, i) ==
    IF i > Len(cmd) THEN << >>
    ELSE (IF NextBreak(cmd, i) = i THEN << >>
          ELSE << Unquoted(SubSeq(cmd, i, NextBreak(cmd, i) - 1)) >>)
         \o ShellSplitFrom(cmd, NextBreak(cmd, i) + 1)

ShellSplit(cmd) == ShellSplitFrom(cmd, 1)

\* C18: splitting the serialized command at its unquoted whitespace gives
\* back the tokens build_command put together, also when the program path, the
\* run name or a path holds a space.
C18_AsStated ==
    HasCommand =>
        ShellSplit(command) =
            CmdParts(config, paths, run_name, resume_from, resume_exists, fp8_base)

\* the dataset fingerprint of the reproducibility record printed last
PrintedHash == stdout[Len(stdout)].body.dataset_hash

ReproPrinted ==
    /\ pc = "done"
    /\ args.mode = "show_repro"
    /\ stdout # << >>
    /\ stdout[Len(stdout)].kind = "repro"

\* C19: the fingerprint tells the three states of the data directory apart:
\* dataset_not_found for a path that is no directory, empty_dataset for a
\* directory without files, and for a directory with at least one file a
\* digest that is neither sentinel.
C19_AsStated ==
    ReproPrinted =>
        /\ ~data_dir.is_dir => PrintedHash = << DatasetNotFound >>
        /\ data_dir.is_dir /\ data_dir.files = {} =>
              PrintedHash = << EmptyDataset >>
        /\ data_dir.is_dir /\ data_dir.files # {} =>
              PrintedHash \notin {<< DatasetNotFound >>, << EmptyDataset >>}

\* C20: whatever way the git probe or the nvidia-smi probe fails, the record
\* is returned with "unknown" in that probe's field, the other probe's field
\* is what it would have been, and --show-repro never ends in a traceback.
C20_AsStated ==
    /\ pc = "exited" /\ args.mode = "show_repro" => command = << >>
    /\ pc = "built" /\ args.mode = "show_repro" =>
          \A git \in ProbeOutcomes, gpu \in ProbeOutcomes :
              LET repro == generate_repro_info(config, paths, run_name,
                                               args.profile, git, gpu)
                  record == repro.record
              IN  /\ ~repro.raises
                  /\ git # "ok" => record.git_commit = "unknown"
                  /\ gpu # "ok" => record.gpu = "unknown"
                  /\ record.gpu =
                        generate_repro_info(config, paths, run_name,
                                            args.profile, "ok", gpu).record.gpu
                  /\ record.git_commit =
                        generate_repro_info(config, paths, run_name,
                                            args.profile, git, "ok").record.git_commit

\* the variables of the override table mapped to a key
VarsOf(key) ==
    {env_mappings[i][1] : i \in {j \in 1..Len(env_mappings) : env_mappings[j][2] = key}}

OverrideKeys == {env_mappings[i][2] : i \in 1..Len(env_mappings)}

\* a variable that is unset, blank, or whose text is not of the kind of key
Ignored(env, var, key) ==
    \/ var \notin DOMAIN env
    \/ Strip(env[var]) = << >>
    \/ ~Converted(key, env[var]).ok

\* the environment without the variables that are ignored
Heeded(env) ==
    LET kept == {i \in 1..Len(env_mappings) :
                    ~Ignored(env, env_mappings[i][1], env_mappings[i][2])}
        names == (DOMAIN env) \ {env_mappings[i][1] : i \in (1..Len(env_mappings)) \ kept}
    IN  [v \in names |-> env[v]]

\* C21: an override variable that is unset, blank or not parsable as the kind
\* of its key gives no entry: a key has an entry only if one of its variables
\* is heeded, the entry is then of the declared kind, a key without entry has
\* the value of the lower layers after the merge, and the overrides are those
\* of the environment without the ignored variables, so the run goes on as if
\* they were not set.
C21_IgnoredVariablesLeaveNoEntry ==
    /\ \A key \in OverrideKeys :
          /\ key \in DOMAIN env_overrides <=>
                \E var \in VarsOf(key) : ~Ignored(environ, var, key)
          /\ key \in DOMAIN env_overrides =>
                \E var \in VarsOf(key) :
                    /\ ~Ignored(environ, var, key)
                    /\ env_overrides[key] = Converted(key, environ[var]).val
          /\ pc = "merged" /\ key \notin DOMAIN env_overrides =>
                /\ key \in DOMAIN config <=>
                      key \in DOMAIN Update(PROFILE_DEFAULTS[args.profile], flat_config)
                /\ key \in DOMAIN config =>
                      config[key] = Update(PROFILE_DEFAULTS[args.profile], flat_config)[key]
    /\ DOMAIN env_overrides \subseteq OverrideKeys
    /\ env_overrides = get_env_overrides(Heeded(environ))

\* C21 witness: RANK=abc and UNET_LR=x are not parsable, LEARNING_RATE=0.001
\* is: the run ends normally with the file's rank and the learning rate of
\* LEARNING_RATE.
C21_Witness ==
    /\ pc = "done"
    /\ "RANK" \in DOMAIN environ /\ environ["RANK"] = << "a", "b", "c" >>
    /\ "UNET_LR" \in DOMAIN environ /\ environ["UNET_LR"] = << "x" >>
    /\ "LEARNING_RATE" \in DOMAIN environ
    /\ "network_dim" \notin DOMAIN env_overrides
    /\ "learning_rate" \in DOMAIN env_overrides
    /\ env_overrides["learning_rate"] = FloatV(1000)
    /\ config["network_dim"] = PROFILE_DEFAULTS[args.profile]["network_dim"]

\* the kind get_env_overrides converts a key's text to (lines 164-172)
DeclaredKind(key) ==
    IF key \in IntKeys THEN "int" ELSE IF key \in FloatKeys THEN "float" ELSE "str"

\* C22: after the merge every key of the override table that the file or the
\* environment gave a value holds a value of the declared kind of the key,
\* and the run ends early only by the exit of validate_config.
C22_AsStated ==
    /\ pc = "merged" =>
          \A key \in OverrideKeys \cap (DOMAIN flat_config \cup DOMAIN env_overrides) :
              config[key].kind = DeclaredKind(key)
    /\ pc = "exited" => validate_config(config, args.allow_alpha_mismatch).exit

ValidationStep == pc = "corrected" /\ pc' # pc

Warned(list, kind) == \E i \in 1..Len(list) : list[i].kind = kind

\* C23: when alpha equals the rank, or the mismatch is allowed,
\* validate_config returns: the run goes on with the configuration as it
\* was, the warnings hold the learning-rate warning exactly when the
\* learning rate is above 0.0005 and the noise warning exactly when the
\* noise offset is above 0.15, and the command built next is the one
\* build_command gives for that configuration, whatever was warned.
C23_Step ==
    /\ ValidationStep /\ (~Mismatch(config) \/ args.allow_alpha_mismatch) =>
          /\ pc' = "validated"
          /\ exit_code' = -1
          /\ config' = config
          /\ stderr' = stderr \o warnings'
          /\ IsNumber(Get(config, "learning_rate", FloatV(100))) =>
                (Warned(warnings', "lr_too_high") <=>
                    Micro(Get(config, "learning_rate", FloatV(100))) > 500)
          /\ IsNumber(Get(config, "noise_offset", IntV(0))) =>
                (Warned(warnings', "noise_too_high") <=>
                    Micro(Get(config, "noise_offset", IntV(0))) > 150000)
    /\ BuildStep =>
          /\ config' = config
          /\ command' = build_command(config, paths', run_name', resume_from',
                                      resume_exists', fp8_base').command

C23_AsStated == [][C23_Step]_vars

\* C24: with --workspace given, the workspace of the run is that value
\* wherever the script is: the TOML file is looked for under its configs
\* directory, and the path table's workspace entry is that value.
C24_AsStated ==
    args.workspace # NoText =>
        /\ pc # "start" =>
              /\ workspace = args.workspace
              /\ ConfigPath(workspace, args.profile)
                    = args.workspace \o << "/configs/flux_", args.profile, ".toml" >>
        /\ paths # EmptyDict => paths["workspace"] = args.workspace

\* the three rules as functions of the configuration, in the provenance of
\* the run
Sync(cfg) == SyncAlpha(cfg, flat_config, env_overrides)
RaiseMax(cfg) == AdjustMaxBucket(cfg).config
LowerMin(cfg) == AdjustMinBucket(cfg).config

\* C25: the configuration auto-correction leaves is the one the three rules
\* give in each of their six orders; each rule applied twice gives what it
\* gives once, and the rules and the whole phase applied again to the
\* corrected configuration leave it as it is.
C25_Step ==
    CorrectionStep =>
        /\ config' = LowerMin(RaiseMax(Sync(config)))
        /\ config' = RaiseMax(LowerMin(Sync(config)))
        /\ config' = LowerMin(Sync(RaiseMax(config)))
        /\ config' = Sync(LowerMin(RaiseMax(config)))
        /\ config' = RaiseMax(Sync(LowerMin(config)))
        /\ config' = Sync(RaiseMax(LowerMin(config)))
        /\ Sync(Sync(config)) = Sync(config)
        /\ RaiseMax(RaiseMax(config)) = RaiseMax(config)
        /\ LowerMin(LowerMin(config)) = LowerMin(config)
        /\ Sync(config') = config'
        /\ RaiseMax(config') = config'
        /\ LowerMin(config') = config'
        /\ AutoCorrected(config', flat_config, env_overrides).config = config'

C25_RulesIdempotentAndIndependent == [][C25_Step]_vars

\* C25 witness: a corrected configuration in which all three rules acted:
\* alpha, the upper and the lower bucket bound differ from the merged ones.
C25_Witness ==
    /\ pc = "corrected"
    /\ \A k \in {"network_alpha", "max_bucket_reso", "min_bucket_reso"} :
          config[k] # MergedConfig(args.profile, flat_config, env_overrides)[k]

\* the bucket bounds and the resolution as build_command reads them
ResolutionOf(cfg) == Get(cfg, "resolution", IntV(512))
MinBucketOf(cfg) == Get(cfg, "min_bucket_reso", IntV(256))
MaxBucketOf(cfg) == Get(cfg, "max_bucket_reso", IntV(1024))

\* C26: after auto-correction min_bucket_reso is at least 256 and at most
\* half the resolution, and max_bucket_reso is at least the resolution.
C26_AsStated ==
    pc \in {"corrected", "validated", "built", "done"} =>
        /\ Micro(MinBucketOf(config)) >= 256 * 1000000
        /\ 2 * Micro(MinBucketOf(config)) <= Micro(ResolutionOf(config))
        /\ Micro(MaxBucketOf(config)) >= Micro(ResolutionOf(config))

CorrectedKeys == {"network_alpha", "max_bucket_reso", "min_bucket_reso"}

\* C27: auto-correction starts from the merged layers and changes no key but
\* network_alpha, max_bucket_reso and min_bucket_reso; validate_config and
\* build_command leave the configuration as it is; and the config of the
\* --output-json object is that corrected, validated configuration.
C27_Step ==
    /\ CorrectionStep =>
          /\ config = MergedConfig(args.profile, flat_config, env_overrides)
          /\ DOMAIN config \subseteq DOMAIN config'
          /\ DOMAIN config' \subseteq DOMAIN config \cup CorrectedKeys
          /\ \A k \in DOMAIN config \ CorrectedKeys : config'[k] = config[k]
    /\ ValidationStep => config' = config
    /\ pc = "validated" /\ pc' # pc => config' = config
    /\ pc = "built" /\ pc' # pc =>
          /\ config' = config
          /\ config = AutoCorrected(MergedConfig(args.profile, flat_config,
                                                 env_overrides),
                                    flat_config, env_overrides).config
          /\ args.mode = "output_json" /\ pc' = "done" =>
                /\ Len(stdout') = 1
                /\ stdout'[1].kind = "json"
                /\ stdout'[1].body.config = config

C27_CorrectionFrame == [][C27_Step]_vars

\* C27 witness: a finished --output-json run whose configuration was
\* changed by auto-correction and warned about by validate_config.
C27_Witness ==
    /\ pc = "done"
    /\ args.mode = "output_json"
    /\ warnings # << >>
    /\ config # MergedConfig(args.profile, flat_config, env_overrides)
    /\ stdout[1].body.config = config

====
